---- MODULE Spec2Model ----
(***************************************************************************)
(* The cognitive core of Clippy's continuous agent:                        *)
(*   - WorkingMemory          (src/rag-system/continuous_agent.js)         *)
(*   - ContinuousAgent (OODA) (src/rag-system/continuous_agent.js)         *)
(*   - HierarchicalRAGComplete, the long-term store                       *)
(*                            (src/rag-system/rag_complete_integration.js) *)
(*   - MemoryOptimizer, its runs and its store operations                  *)
(*                            (src/rag-system/memory_optimizer.js)         *)
(*                                                                         *)
(* Numbers.  Importance is kept in hundredths (0.5 is 50).  JavaScript's   *)
(* doubles give 0.5+0.1+0.2 = 0.8 exactly and 0.5+0.2+0.2 =                *)
(* 0.8999999999999999; the latter is written 90, which keeps every         *)
(* comparison the code makes (> 0.8, > 0.6, > 0.5) and every ordering of   *)
(* scores that differ by at least one millisecond of age.                  *)
(* Time is in milliseconds, as Date.now() gives it.                        *)
(***************************************************************************)
EXTENDS Integers, Sequences, FiniteSets, TLC

VARIABLES
    \* ---- WorkingMemory ----
    maxSize,        \* this.maxSize
    items,          \* this.items
    attention,      \* this.attention: primary, secondary
    hasLTM,         \* whether this.longTermMemory is attached
    now,            \* the clock Date.now() reads
    nextSeq,        \* number of add() calls so far (labels the items)
    pruned,         \* itemsToPrune of the latest cleanup()
    offered,        \* the items handed to saveToLongTermMemory, in order
    \* ---- HierarchicalRAGComplete (the long-term store) ----
    table,          \* the rows of the 'memories' table, in the order added
    nodeCache,      \* this.nodeCache: rows in the Map's insertion order
    scanOrder,      \* the order in which the table engine meets equal rows
    nextId,         \* number of node ids generated so far
    lastAdd,        \* what the latest addNode() call was given and did
    \* ---- ContinuousAgent ----
    pc,             \* the place start() has reached
    isRunning,      \* this.isRunning
    cycleCount,     \* this.cycleCount
    eventQueue,     \* this.eventQueue
    observations,   \* what observe() returned
    orientation,    \* what orient() returned
    decision,       \* what decide() returned
    lastThinkTime,  \* this.lastThinkTime
    delay,          \* the milliseconds the running sleep() was given
    ongoing,        \* situation.myActions.ongoing (action names)
    completed,      \* situation.myActions.completed (action names)
    emitted,        \* number of 'message' events emitted
    nextEvent,      \* number of events enqueued so far (labels the events)
    dequeued,       \* the events observe() took, in order
    phases,         \* the phases entered in the current cycle, in order
    actPending,     \* act() has made its external call and not returned
    stopCycle,      \* cycleCount at the latest stop(), -1 before
    \* ---- MemoryOptimizer ----
    callModel,      \* whether opts.callModel was given
    rewardThreshold,        \* this.rewardThreshold
    conversationCount,      \* this.conversationCount
    optimizationCount,      \* this.optimizationCount
    lastOptimizationTime,   \* this.lastOptimizationTime
    runs,           \* the runOptimization() calls in progress, oldest first
    grpo,           \* what the latest _optimizeWithGRPO() call did
    experienceLibrary,      \* this.experienceLibrary
    \* ---- the calls left running, and the sandboxes ----
    settled,        \* number of saveToLongTermMemory() calls that have ended
    sandboxes,      \* sandboxDir of each SandboxMemory.create(), in order
    loop2,          \* the place a second start() call has reached
    calls           \* the addNode() calls made at the same time, in progress

wmVars == <<maxSize, items, attention, hasLTM, now, nextSeq, pruned, offered>>

storeVars == <<table, nodeCache, scanOrder, nextId, lastAdd>>

agentVars == <<pc, isRunning, cycleCount, eventQueue, observations, orientation,
               decision, lastThinkTime, delay, ongoing, completed, emitted, nextEvent,
               dequeued, phases, actPending, stopCycle>>

optVars == <<callModel, rewardThreshold, conversationCount, optimizationCount,
             lastOptimizationTime, runs, grpo, experienceLibrary, settled, sandboxes,
             loop2, calls>>

vars == <<wmVars, storeVars, agentVars, optVars>>

\* ------------------------------------------------------------------------
\* Bounds of the model
\* ------------------------------------------------------------------------
MaxAdds == 3        \* add() calls per behaviour
MaxAccess == 1      \* getRecent() stops raising accessCount here
MaxReads == 4       \* the same, where the working memory is read often

\* new WorkingMemory(maxSize, ...) is built with one of these sizes.
MaxSizes == {1, 2}

\* Time between one add() and the one before: none (the same millisecond),
\* or 150 s (0.3 * 150000/600000 = 0.075 of score, more than one 0.1 step of
\* importance, which is worth 0.07).
Dts == {0, 150000}

\* getRecent(n): the code calls it with 5 and 10; 1 is the partial read.
RecentNs == {1, 5}

NoItem == [type |-> "none"]

\* The items the program hands to add(): an observation (event, internal,
\* attention), the decision record (agent_thinking) and the action record
\* (agent_action).  sub is the event's type, the thinking's trigger or the
\* action's name; needsResponse is the event payload's flag.
RawItems ==
    { [type |-> "event", sub |-> "user_message", needsResponse |-> TRUE],
      [type |-> "event", sub |-> "system_event", needsResponse |-> FALSE],
      [type |-> "internal", sub |-> "time_to_think", needsResponse |-> FALSE],
      [type |-> "attention", sub |-> "focus", needsResponse |-> FALSE],
      [type |-> "agent_thinking", sub |-> "user_message", needsResponse |-> FALSE],
      [type |-> "agent_thinking", sub |-> "system_event", needsResponse |-> FALSE],
      [type |-> "agent_action", sub |-> "respond_to_user", needsResponse |-> FALSE],
      [type |-> "agent_action", sub |-> "symbolic_reasoning", needsResponse |-> FALSE] }

\* The inputs of add() that differ in importance or in retention: the
\* internal and attention observations score as a system event does.
WMInputs == { it \in RawItems : it.type \notin {"internal", "attention"} }

Min(a, b) == IF a <= b THEN a ELSE b

\* ------------------------------------------------------------------------
\* WorkingMemory
\* ------------------------------------------------------------------------

\* Mutant of calculateImportance: the score is returned without the cap.
calculateImportance_Uncapped(item) ==
    LET eventType == IF item.type = "event" THEN item.sub ELSE item.type
    IN  CASE eventType = "user_message" ->
                50 + 40 + (IF item.needsResponse THEN 20 ELSE 0)
          [] eventType = "agent_thinking" ->
                50 + 10 + (IF item.sub = "user_message" THEN 20 ELSE 0)
          [] eventType = "agent_action" ->
                50 + 20 + (IF item.sub = "respond_to_user" THEN 20 ELSE 0)
          [] OTHER -> 50

\* calculateImportance(item), in hundredths.  For an event the switch is on
\* the event's own type.
calculateImportance(item) ==
    LET eventType == IF item.type = "event" THEN item.sub ELSE item.type
        score ==
            CASE eventType = "user_message" ->
                    50 + 40 + (IF item.needsResponse THEN 20 ELSE 0)
              [] eventType = "agent_thinking" ->
                    50 + 10 + (IF item.sub = "user_message" THEN 20 ELSE 0)
              [] eventType = "agent_action" ->
                    50 + 20 + (IF item.sub = "respond_to_user" THEN 20 ELSE 0)
              [] OTHER -> 50
    IN  Min(score, 100)

\* The comparator's score of cleanup(), times 2000000: 0.7 * importance is
\* 14000 per hundredth, 0.3 * 1 is 600000, and a millisecond of age is 1.
\* (importance || 0.5) and (timestamp || Date.now()) replace a zero.
Score(it, t) ==
    LET imp == IF it.importance = 0 THEN 50 ELSE it.importance
        ts == IF it.timestamp = 0 THEN t ELSE it.timestamp
    IN  14000 * imp + 600000 - (t - ts)

\* Array.prototype.sort with (a, b) => scoreB - scoreA: descending by score,
\* stable.  One sort is synchronous, so its Date.now() reads agree.
\* Before(s, j, i, t): the item at j comes to stand before the item at i.
Before(s, j, i, t) ==
    \/ Score(s[j], t) > Score(s[i], t)
    \/ (Score(s[j], t) = Score(s[i], t) /\ j < i)

\* Mutant of SortByScore: the sort is left out.
SortByScore_Unsorted(s, t) == s

SortByScore(s, t) ==
    LET n == Len(s)
        rank(i) == Cardinality({j \in 1..n : Before(s, j, i, t)}) + 1
    IN  [k \in 1..n |-> s[CHOOSE i \in 1..n : rank(i) = k]]

\* Mutant of shouldRemember: the rule on accessCount is left out.
shouldRemember_NoAccess(it) ==
    \/ (it.importance # 0 /\ it.importance > 80)
    \/ (it.type = "agent_thinking" /\ it.importance > 60)

\* Mutant of shouldRemember: every item is to be remembered.
shouldRemember_All(it) == TRUE

\* shouldRemember(item)
shouldRemember(it) ==
    \/ (it.importance # 0 /\ it.importance > 80)
    \/ (it.accessCount # 0 /\ it.accessCount > 3)
    \/ (it.type = "agent_thinking" /\ it.importance > 60)

\* cleanup(): the sort, then the cut at maxSize; the result is the kept
\* items and itemsToPrune.
\* Mutant of cleanupKept: the cut at maxSize is left out.
cleanupKept_NoCut(its, size, t) == SortByScore(its, t)

cleanupKept(its, size, t) ==
    LET sorted == SortByScore(its, t)
    IN  IF Len(sorted) > size THEN SubSeq(sorted, 1, size) ELSE sorted

cleanupPruned(its, size, t) ==
    LET sorted == SortByScore(its, t)
    IN  IF Len(sorted) > size THEN SubSeq(sorted, size + 1, Len(sorted)) ELSE <<>>

\* The items of itemsToPrune that cleanup() hands to saveToLongTermMemory.
cleanupOffered(prunedItems, ltm) ==
    IF ltm THEN SelectSeq(prunedItems, shouldRemember) ELSE <<>>

\* The attention record after add(item) with the computed importance.
updateAttention(att, item, importance) ==
    IF importance > 80 THEN [att EXCEPT !.primary = item]
    ELSE IF importance > 50
         THEN LET sec == Append(att.secondary, item)
              IN  [att EXCEPT !.secondary = IF Len(sec) > 3 THEN Tail(sec) ELSE sec]
         ELSE att

\* The stored copy of an item: {...item, importance, timestamp, accessCount: 0}
StoredItem(item, seq, t) ==
    [type |-> item.type, sub |-> item.sub, needsResponse |-> item.needsResponse,
     importance |-> calculateImportance(item), timestamp |-> t, accessCount |-> 0,
     seq |-> seq]

\* The working memory as one value, and its assignment.
WM == [items |-> items, attention |-> attention, pruned |-> pruned,
       offered |-> offered, nextSeq |-> nextSeq]

SetWM(wm) ==
    /\ items' = wm.items
    /\ attention' = wm.attention
    /\ pruned' = wm.pruned
    /\ offered' = wm.offered
    /\ nextSeq' = wm.nextSeq
    /\ UNCHANGED <<maxSize, hasLTM>>

KeepWM == UNCHANGED <<maxSize, items, attention, hasLTM, nextSeq, pruned, offered>>

\* add(item) at the clock reading t: unshift, attention, cleanup.
add(wm, item, t) ==
    LET stored == StoredItem(item, wm.nextSeq + 1, t)
        all == <<stored>> \o wm.items
        gone == cleanupPruned(all, maxSize, t)
    IN  [items |-> cleanupKept(all, maxSize, t),
         pruned |-> gone,
         offered |-> wm.offered \o cleanupOffered(gone, hasLTM),
         attention |-> updateAttention(wm.attention, item, stored.importance),
         nextSeq |-> wm.nextSeq + 1]

WMAdd(item, t) == SetWM(add(WM, item, t))

\* add(item), called dt milliseconds after the previous operation.
Add(item, dt) ==
    /\ nextSeq < MaxAdds
    /\ now' = now + dt
    /\ WMAdd(item, now + dt)
    /\ UNCHANGED <<storeVars, agentVars, optVars>>

\* getRecent(n): the first n items, each with its accessCount raised.
getRecent(its, n) ==
    [i \in 1..Len(its) |->
        IF i <= n THEN [its[i] EXCEPT !.accessCount = @ + 1] ELSE its[i]]

\* The model leaves room for getRecent(n): no item it reads has been read
\* bound times.
ReadsLeft(n, bound) ==
    \A i \in 1..Min(n, Len(items)) : items[i].accessCount < bound

GetRecent(n) ==
    /\ items # <<>>
    /\ items' = getRecent(items, n)
    /\ UNCHANGED <<maxSize, attention, hasLTM, now, nextSeq, pruned, offered>>
    /\ UNCHANGED <<storeVars, agentVars, optVars>>

\* ------------------------------------------------------------------------
\* HierarchicalRAGComplete: the node table and the node cache
\* ------------------------------------------------------------------------
\* A row of the table is a record id, layer, vector, context, parent_id,
\* children_ids, access_count.  context is kept as the string's length, the
\* vector as a pair of integers and children_ids as the parsed array: the
\* ids the code generates hold letters, digits and '_' only, so
\* JSON.parse(JSON.stringify(ids)) gives the array back.  created_at and
\* last_accessed are written and never read.
\*
\* table.add() appends: the table engine has no key, and a row added with
\* the id of an earlier row stands beside it.

\* options.maxLayers and options.maxChildren of the store under study.
maxLayers == 3
maxChildren == 1

\* this.maxCacheSize
maxCacheSize == 1000

MaxRows == 5        \* rows the table holds at most
MaxIds == 2         \* node ids generated per behaviour
MaxTicks == 2       \* tick() calls per behaviour
MaxRuns == 2        \* runOptimization() calls in progress at once
MaxHours == 1       \* hours that pass per behaviour

RootId == "root"
NullId == "null"    \* JavaScript's null in parent_id and in a failed lookup

\* `node_${layer}_${Date.now()}_${random}`: the k-th generated id.
NodeIds == <<"n1", "n2", "n3", "n4", "n5", "n6", "n7", "n8">>

\* Embeddings; the root row holds the zero vector.
ZeroVec == <<0, 0>>
EmbedVecs == {<<1, 0>>, <<9, 4>>}

\* Context lengths: 'news' is given to addNode(), a sentence is what
\* _executeAdjustContext writes.
ContextLens == {4}
AdjustedLens == {30}

Row(id, layer, vector, context, parent, children, access) ==
    [id |-> id, layer |-> layer, vector |-> vector, context |-> context,
     parent_id |-> parent, children_ids |-> children, access_count |-> access]

NoRow == Row(NullId, -1, ZeroVec, 0, NullId, <<>>, 0)

\* The row createTable() writes; its context has five characters.
rootRow == Row(RootId, 0, ZeroVec, 5, NullId, <<>>, 0)

Reverse(s) == [i \in 1..Len(s) |-> s[Len(s) + 1 - i]]

\* The rows as a query without an order meets them.
Scan(t) == IF scanOrder = "oldest_first" THEN t ELSE Reverse(t)

InSeq(x, s) == \E i \in 1..Len(s) : s[i] = x

\* truncateText(text, maxLength), on lengths.
truncateText(len, maxLength) == IF len <= maxLength THEN len ELSE maxLength

\* cacheNode(node): drop the first key when the Map is full, then set.
cacheNode(c, node) ==
    LET c1 == IF Len(c) >= maxCacheSize THEN Tail(c) ELSE c
    IN  IF \E i \in 1..Len(c1) : c1[i].id = node.id
        THEN [i \in 1..Len(c1) |-> IF c1[i].id = node.id THEN node ELSE c1[i]]
        ELSE Append(c1, node)

cacheHas(c, id) == \E i \in 1..Len(c) : c[i].id = id

cacheGet(c, id) == c[CHOOSE i \in 1..Len(c) : c[i].id = id]

cacheDelete(c, id) == SelectSeq(c, LAMBDA r : r.id # id)

\* query().where(`id = '...'`).limit(1)
queryById(t, id) ==
    LET found == SelectSeq(Scan(t), LAMBDA r : r.id = id)
    IN  IF found = <<>> THEN <<>> ELSE <<found[1]>>

\* getNode(nodeId): the value returned, and the store after the call (a row
\* read from the table is cached).  st is the pair: t the table, c the cache.
getNode(st, id) ==
    IF cacheHas(st.c, id) THEN cacheGet(st.c, id)
    ELSE LET results == queryById(st.t, id)
         IN  IF Len(results) > 0 THEN results[1] ELSE NoRow

afterGetNode(st, id) ==
    IF cacheHas(st.c, id) THEN st
    ELSE LET results == queryById(st.t, id)
         IN  IF Len(results) > 0
             THEN [st EXCEPT !.c = cacheNode(st.c, results[1])]
             ELSE st

\* Mutant of addChildToParent: the parent is left as it was.
addChildToParent_Skip(st, parentId, childId) == st

\* addChildToParent(parentId, childId)
addChildToParent(st, parentId, childId) ==
    LET parent == getNode(st, parentId)
        st1 == afterGetNode(st, parentId)
    IN  IF parent # NoRow /\ ~InSeq(childId, parent.children_ids)
        THEN LET updated == [parent EXCEPT !.children_ids = Append(@, childId)]
             IN  [t |-> Append(st1.t, updated), c |-> cacheNode(st1.c, updated)]
        ELSE st1

\* The row the table holds for an id, read as the code means it: the one
\* added last.
HasRow(t, id) == \E i \in 1..Len(t) : t[i].id = id

Latest(t, id) ==
    t[CHOOSE i \in 1..Len(t) : t[i].id = id /\ \A j \in (i + 1)..Len(t) : t[j].id # id]

\* What an addNode() call meets: the state of its arguments against the table.
callFacts(t, layer, parentId) ==
    LET given == parentId # NullId
        known == given /\ HasRow(t, parentId)
    IN  [called |-> TRUE, layer |-> layer, parentId |-> parentId,
         layerInRange |-> (layer >= 0 /\ layer < maxLayers),
         parentGiven |-> given,
         parentMissing |-> (given /\ ~known),
         parentWrongLayer |-> (known /\ Latest(t, parentId).layer # layer - 1),
         parentFull |-> (known /\ Len(Latest(t, parentId).children_ids) >= maxChildren)]

\* Mutant of layerValid: any layer passes.
layerValid_Any(layer) == TRUE

layerValid(layer) == ~(layer < 0 \/ layer >= maxLayers)

\* The validation of addNode(): "ok", or the error thrown.
validateParent(parent, layer) ==
    IF parent = NoRow THEN "parent_not_found"
    ELSE IF parent.layer # layer - 1 THEN "parent_wrong_layer"
    ELSE IF Len(parent.children_ids) >= maxChildren THEN "parent_full"
    ELSE "ok"

\* addNode({content, context, layer, parentId}) with vector the embedding of
\* content and newId the id generated: the store after the call, whether it
\* returned (ok) or threw, and the row made.
addNode(st, layer, parentId, vector, context, newId) ==
    LET facts == callFacts(st.t, layer, parentId)
        failed(s1, why) == [st |-> s1, ok |-> FALSE, error |-> why, node |-> NoRow,
                            facts |-> facts]
        insert(s1) ==
            LET node == Row(newId, layer, vector, truncateText(context, 256),
                            parentId, <<>>, 1)
                s2 == [s1 EXCEPT !.t = Append(@, node)]
                s3 == IF parentId # NullId
                      THEN addChildToParent(s2, parentId, newId) ELSE s2
            IN  [st |-> [s3 EXCEPT !.c = cacheNode(@, node)], ok |-> TRUE,
                 error |-> "none", node |-> node, facts |-> facts]
    IN  IF ~layerValid(layer) THEN failed(st, "layer_out_of_range")
        ELSE IF parentId # NullId
             THEN LET parent == getNode(st, parentId)
                      s1 == afterGetNode(st, parentId)
                      verdict == validateParent(parent, layer)
                  IN  IF verdict # "ok" THEN failed(s1, verdict) ELSE insert(s1)
             ELSE insert(st)

\* updateAccessStats(nodeId): a copy of the row getNode() gives, with its
\* count raised, is added; the cache is not touched.
updateAccessStats(st, id) ==
    LET node == getNode(st, id)
        s1 == afterGetNode(st, id)
    IN  IF node # NoRow
        THEN [s1 EXCEPT !.t = Append(@, [node EXCEPT !.access_count = @ + 1])]
        ELSE s1

RECURSIVE updateAccessStatsAll(_, _)
updateAccessStatsAll(st, results) ==
    IF results = <<>> THEN st
    ELSE updateAccessStatsAll(updateAccessStats(st, Head(results).id), Tail(results))

\* The squared L2 distance vectorSearch() ranks by.
Distance(a, b) == (a[1] - b[1]) * (a[1] - b[1]) + (a[2] - b[2]) * (a[2] - b[2])

RECURSIVE InsertByDistance(_, _, _)
InsertByDistance(r, sorted, q) ==
    IF sorted = <<>> THEN <<r>>
    ELSE IF Distance(Head(sorted).vector, q) <= Distance(r.vector, q)
         THEN <<Head(sorted)>> \o InsertByDistance(r, Tail(sorted), q)
         ELSE <<r>> \o sorted

RECURSIVE SortByDistance(_, _)
SortByDistance(s, q) ==
    IF s = <<>> THEN <<>>
    ELSE InsertByDistance(s[Len(s)], SortByDistance(SubSeq(s, 1, Len(s) - 1), q), q)

\* vectorSearch(q).where(`layer = L [AND parent_id = 'P']`).limit(topK):
\* the nearest rows first, equal distances in scan order.
vectorSearch(t, q, layer, parentId, topK) ==
    LET matching == SelectSeq(Scan(t), LAMBDA r :
                        r.layer = layer /\ (parentId = NullId \/ r.parent_id = parentId))
        ranked == SortByDistance(matching, q)
    IN  SubSeq(ranked, 1, Min(topK, Len(ranked)))

\* searchInLayer(query, layer, topK, parentId): the results and the store
\* after the access counts are written.
searchInLayer(st, q, layer, topK, parentId) ==
    LET results == vectorSearch(st.t, q, layer, parentId, topK)
    IN  [st |-> updateAccessStatsAll(st, results), results |-> results]

\* traverseSearch(query, maxDepth) from currentLayer on.
RECURSIVE traverseFrom(_, _, _, _, _, _)
traverseFrom(st, q, maxDepth, currentLayer, currentParent, allResults) ==
    IF ~(currentLayer < Min(maxDepth, maxLayers))
    THEN [st |-> st, results |-> allResults]
    ELSE LET found == searchInLayer(st, q, currentLayer, 3, currentParent)
         IN  IF Len(found.results) = 0
             THEN [st |-> found.st, results |-> allResults]
             ELSE traverseFrom(found.st, q, maxDepth, currentLayer + 1,
                               found.results[1].id, allResults \o found.results)

traverseSearch(st, q, maxDepth) == traverseFrom(st, q, maxDepth, 0, NullId, <<>>)

\* ------------------------------------------------------------------------
\* WorkingMemory.saveToLongTermMemory and MemoryOptimizer's operations
\* ------------------------------------------------------------------------

\* No addNode() call was made.
NoAdd == [ok |-> FALSE, error |-> "not_called", node |-> NoRow, facts |-> [called |-> FALSE]]

\* The verdicts dialecticEngine.mergeCheck() can come back with: redundant
\* and not to be stored, contradictory, or anything else.
Relationships == {"redundant", "contradictory", "novel"}

\* The call that fails while an item is committed: none, traverseSearch(),
\* the completion of mergeCheck(), or addNode().
Failures == {"none", "search", "check", "add"}

\* The context saveToLongTermMemory() writes, as a length:
\* 'agent-experience:dialectic-contradiction' or 'agent-experience'.
commitContext(relationship) == IF relationship = "contradictory" THEN 40 ELSE 16

\* saveToLongTermMemory(item), the item's text embedded as vector.  With the
\* dialectic engine attached the store is searched to depth 2 first; the
\* node is added at layer 2 and no parentId is passed.  An error of addNode
\* is caught and logged.  failure names the call that fails, if one does:
\* a rejected traverseSearch() is replaced by [] (.catch(() => [])), a failed
\* completion of mergeCheck() by {shouldStore: true} with no relationship,
\* and a throwing addNode() (the embedding or the table's add) writes nothing.
saveToLongTermMemory(st, engine, vector, relationship, failure, newId) ==
    LET commit(s, context) ==
            LET made == addNode(s, 2, NullId, vector, context, newId)
            IN  IF failure = "add"
                THEN [st |-> s,
                      add |-> [made EXCEPT !.st = s, !.ok = FALSE,
                                           !.error = "store_failure", !.node = NoRow]]
                ELSE [st |-> made.st, add |-> made]
        related == IF failure = "search" THEN [st |-> st, results |-> <<>>]
                   ELSE traverseSearch(st, vector, 2)
        verdict == IF failure = "check" THEN "novel" ELSE relationship
    IN  IF engine /\ Len(related.results) > 0
        THEN IF verdict = "redundant"
             THEN [st |-> related.st, add |-> NoAdd]
             ELSE commit(related.st, commitContext(verdict))
        ELSE commit(st, commitContext("novel"))

\* [...new Set([...children1, ...children2])]
RECURSIVE Dedup(_)
Dedup(s) ==
    IF s = <<>> THEN <<>>
    ELSE LET front == Dedup(SubSeq(s, 1, Len(s) - 1))
         IN  IF InSeq(s[Len(s)], front) THEN front ELSE Append(front, s[Len(s)])

\* The loop of _executeMerge that re-parents the merged children: a copy of
\* the child's row with the new parent_id is added to the table.
RECURSIVE reparentAll(_, _, _)
reparentAll(st, childIds, mergedId) ==
    IF childIds = <<>> THEN st
    ELSE LET child == getNode(st, Head(childIds))
             s1 == afterGetNode(st, Head(childIds))
             s2 == IF child # NoRow
                   THEN [s1 EXCEPT !.t = Append(@, [child EXCEPT !.parent_id = mergedId])]
                   ELSE s1
         IN  reparentAll(s2, Tail(childIds), mergedId)

\* _executeMerge(nodeIds), the merged text embedded as vector.  An error of
\* addNode leaves the method.
executeMerge(st, nodeIds, vector, newId) ==
    IF Len(nodeIds) < 2 THEN [st |-> st, add |-> NoAdd]
    ELSE LET node1 == getNode(st, nodeIds[1])
             s1 == afterGetNode(st, nodeIds[1])
             node2 == getNode(s1, nodeIds[2])
             s2 == afterGetNode(s1, nodeIds[2])
         IN  IF node1 = NoRow \/ node2 = NoRow THEN [st |-> s2, add |-> NoAdd]
             ELSE LET mergedContext ==
                          IF node1.context # 0 /\ node2.context # 0
                          THEN Min(node1.context + 2 + node2.context, 256)
                          ELSE IF node1.context # 0 THEN node1.context
                          ELSE IF node2.context # 0 THEN node2.context
                          ELSE 13
                      mergedChildren == Dedup(node1.children_ids \o node2.children_ids)
                      made == addNode(s2, node1.layer, node1.parent_id, vector,
                                     mergedContext, newId)
                  IN  IF made.ok
                      THEN [st |-> reparentAll(made.st, mergedChildren, newId), add |-> made]
                      ELSE [st |-> made.st, add |-> made]

\* _executeAdjustContext(nodeIds), the new text having newContext characters.
RECURSIVE executeAdjustContext(_, _, _)
executeAdjustContext(st, nodeIds, newContext) ==
    IF nodeIds = <<>> THEN st
    ELSE LET node == getNode(st, Head(nodeIds))
             s1 == afterGetNode(st, Head(nodeIds))
             updated == [node EXCEPT !.context = Min(newContext, 256)]
             s2 == IF node = NoRow THEN s1
                   ELSE [t |-> Append(s1.t, updated), c |-> cacheNode(s1.c, updated)]
         IN  executeAdjustContext(s2, Tail(nodeIds), newContext)

\* Whether _executeDelete() goes past its two guards for nodeId, node being
\* the row getNode() gave.
deletable(nodeId, node) ==
    ~(nodeId = RootId) /\ node # NoRow /\ ~(Len(node.children_ids) > 0)

\* The ids of nodeIds for which _executeDelete(nodeIds) reaches
\* nodeCache.delete(), in order.
RECURSIVE deleteTargets(_, _)
deleteTargets(st, nodeIds) ==
    IF nodeIds = <<>> THEN <<>>
    ELSE LET nodeId == Head(nodeIds)
             node == IF nodeId = RootId THEN NoRow ELSE getNode(st, nodeId)
             s1 == IF nodeId = RootId THEN st ELSE afterGetNode(st, nodeId)
             s2 == IF deletable(nodeId, node)
                   THEN [s1 EXCEPT !.c = cacheDelete(@, nodeId)] ELSE s1
         IN  (IF deletable(nodeId, node) THEN <<nodeId>> ELSE <<>>)
                 \o deleteTargets(s2, Tail(nodeIds))

\* _executeDelete(nodeIds): a leaf other than the root leaves the cache.
RECURSIVE executeDelete(_, _)
executeDelete(st, nodeIds) ==
    IF nodeIds = <<>> THEN st
    ELSE LET nodeId == Head(nodeIds)
             node == getNode(st, nodeId)
             s1 == afterGetNode(st, nodeId)
             s2 == IF ~deletable(nodeId, node)
                   THEN (IF nodeId = RootId THEN st ELSE s1)
                   ELSE [s1 EXCEPT !.c = cacheDelete(@, nodeId)]
         IN  executeDelete(s2, Tail(nodeIds))

\* ------------------------------------------------------------------------
\* MemoryOptimizer: problems, candidate groups, rewards
\* ------------------------------------------------------------------------
\* Numbers.  A metric is kept in thousandths and a weight in tenths; a
\* reward, (sum + 1) / 2, is kept in 1/20000, so that 0.6 is 12000.

groupSize == 4          \* opts.groupSize || 4
numEpochs == 1          \* opts.numEpochs, given as 1
HourMs == 3600000       \* 3600_000 of tick()

\* A reward or threshold given in tenths.
Reward(tenths) == tenths * 2000

\* The thresholds the optimizer is built with: 0.5, and the default 0.6.
RewardThresholds == {Reward(5), Reward(6)}

RECURSIVE Flatten(_)
Flatten(ss) == IF ss = <<>> THEN <<>> ELSE Head(ss) \o Flatten(Tail(ss))

RECURSIVE SumSeq(_)
SumSeq(s) == IF s = <<>> THEN 0 ELSE Head(s) + SumSeq(Tail(s))

Dot(a, b) == a[1] * b[1] + a[2] * b[2]

\* sim > 0.85 for sim = _cosineSimilarity(vecA, vecB), which is 0 when a
\* norm is 0.
similar(a, b) ==
    /\ Dot(a, a) * Dot(b, b) # 0
    /\ Dot(a, b) > 0
    /\ 10000 * Dot(a, b) * Dot(a, b) > 7225 * Dot(a, a) * Dot(b, b)

\* _cosineSimilarity(vecA, vecB) of similar vectors, in thousandths,
\* rounded down to a hundredth.
cosineSimilarity(a, b) ==
    10 * (CHOOSE r \in 85..100 :
            /\ r * r * Dot(a, a) * Dot(b, b) <= 10000 * Dot(a, b) * Dot(a, b)
            /\ r = 100 \/ (r + 1) * (r + 1) * Dot(a, a) * Dot(b, b)
                              > 10000 * Dot(a, b) * Dot(a, b))

Problem(type, nodes, overlapRatio, layer) ==
    [type |-> type, nodes |-> nodes, overlapRatio |-> overlapRatio, layer |-> layer]

\* table.query().where(`layer = ${layer}`).limit(200).toArray()
layerNodes(t, layer) ==
    LET rows == SelectSeq(Scan(t), LAMBDA r : r.layer = layer)
    IN  SubSeq(rows, 1, Min(200, Len(rows)))

\* The pairs i < j of one group of siblings that overlap.
overlapsOf(siblings, layer) ==
    Flatten([i \in 1..Len(siblings) |->
        Flatten([j \in 1..Len(siblings) |->
            IF j > i /\ similar(siblings[i].vector, siblings[j].vector)
            THEN <<Problem("high_overlap", <<siblings[i].id, siblings[j].id>>,
                           cosineSimilarity(siblings[i].vector, siblings[j].vector),
                           layer)>>
            ELSE <<>>])])

\* _detectOverlaps(): the rows of a layer are grouped by parent_id, the
\* groups in the order their first row is met.
detectOverlaps(t) ==
    Flatten([l \in 1..maxLayers |->
        LET rows == layerNodes(t, l - 1)
            pids == Dedup([i \in 1..Len(rows) |-> rows[i].parent_id])
        IN  IF Len(rows) < 2 THEN <<>>
            ELSE Flatten([g \in 1..Len(pids) |->
                     overlapsOf(SelectSeq(rows, LAMBDA r : r.parent_id = pids[g]),
                                l - 1)])])

\* _detectPoorContexts(): a context of fewer than 20 characters.
detectPoorContexts(t) ==
    Flatten([l \in 1..maxLayers |->
        LET rows == layerNodes(t, l - 1)
        IN  Flatten([i \in 1..Len(rows) |->
                IF rows[i].id # RootId /\ (rows[i].context = 0 \/ rows[i].context < 20)
                THEN <<Problem("poor_context", <<rows[i].id>>, 0, rows[i].layer)>>
                ELSE <<>>])])

\* _detectLayerImbalance(): rows with more than 3 children and more than
\* 1.5 times the average of their layer.
detectLayerImbalance(t) ==
    Flatten([l \in 1..maxLayers |->
        LET rows == layerNodes(t, l - 1)
            childCounts == [i \in 1..Len(rows) |-> Len(rows[i].children_ids)]
        IN  IF Len(rows) = 0 \/ SumSeq(childCounts) = 0 THEN <<>>
            ELSE Flatten([i \in 1..Len(rows) |->
                     IF /\ 2 * childCounts[i] * Len(rows) > 3 * SumSeq(childCounts)
                        /\ childCounts[i] > 3
                     THEN <<Problem("layer_imbalance", <<rows[i].id>>, 0, rows[i].layer)>>
                     ELSE <<>>])])

\* _identifyProblems('general')
identifyProblems(t) ==
    detectOverlaps(t) \o detectPoorContexts(t) \o detectLayerImbalance(t)

Op(operationType, targetNodes) ==
    [operationType |-> operationType, targetNodes |-> targetNodes]

\* _heuristicOperations(problem)
heuristicOperations(problem) ==
    LET nodes == problem.nodes
        ops == IF problem.type = "high_overlap" /\ Len(nodes) >= 2
               THEN <<Op("merge", <<nodes[1], nodes[2]>>),
                      Op("adjust_context", <<nodes[1]>>),
                      Op("delete", <<nodes[2]>>),
                      Op("move_layer", <<nodes[2]>>)>>
               ELSE IF problem.type = "poor_context"
               THEN <<Op("adjust_context", <<nodes[1]>>), Op("delete", <<nodes[1]>>)>>
               ELSE IF problem.type = "layer_imbalance"
               THEN <<Op("move_layer", <<nodes[1]>>), Op("adjust_context", <<nodes[1]>>)>>
               ELSE <<>>
        padded == ops \o [i \in 1..(groupSize - Len(ops)) |->
                             Op("adjust_context", <<nodes[1]>>)]
    IN  SubSeq(padded, 1, Min(groupSize, Len(padded)))

\* What callModel() answers when asked for a group: nothing usable (it
\* throws, or its text holds no JSON array), or an array of operations.
NoResponse == [ok |-> FALSE, ops |-> <<>>]

Responses(problem) ==
    LET n == problem.nodes[1]
    IN  {NoResponse} \cup
        { [ok |-> TRUE, ops |-> ops] : ops \in
            { <<>>,
              <<Op("merge", <<n>>)>>,
              <<Op("delete", <<n>>)>>,
              <<Op("split", <<n>>)>>,
              <<Op("move_layer", <<n>>), Op("adjust_context", <<n>>)>>,
              <<Op("delete", <<n>>), Op("delete", <<n>>), Op("delete", <<n>>),
                Op("delete", <<n>>), Op("adjust_context", <<n>>)>> } }

\* _generateOperationGroup(problem, goal): what the model answered is taken
\* as it is, cut to groupSize.
generateOperationGroup(problem, hasModel, response) ==
    IF ~hasModel \/ ~response.ok THEN heuristicOperations(problem)
    ELSE SubSeq(response.ops, 1, Min(groupSize, Len(response.ops)))

\* _simulateOperation(operation, problem)
simulateOperation(operation, problem) ==
    LET metrics(o, c, s, l) == [overlapReduction |-> o, contextImprovement |-> c,
                                structureCoherence |-> s, informationLoss |-> l]
        type == operation.operationType
    IN  IF type = "merge"
        THEN metrics(IF problem.overlapRatio # 0 THEN problem.overlapRatio ELSE 500,
                     0, 800, 200)
        ELSE IF type = "adjust_context" THEN metrics(0, 700, 1000, 0)
        ELSE IF type = "move_layer" THEN metrics(0, 0, 600, 100)
        ELSE IF type = "delete" THEN metrics(500, 0, 700, 800)
        ELSE metrics(0, 0, 0, 0)

\* The weights of _calculateReward, in tenths.
weights(type) ==
    IF type = "poor_context"
    THEN [overlapReduction |-> 1, contextImprovement |-> 6,
          structureCoherence |-> 2, informationLoss |-> -1]
    ELSE IF type = "layer_imbalance"
    THEN [overlapReduction |-> 2, contextImprovement |-> 1,
          structureCoherence |-> 5, informationLoss |-> -2]
    ELSE [overlapReduction |-> 5, contextImprovement |-> 2,
          structureCoherence |-> 2, informationLoss |-> -3]

\* _calculateReward(operation, problem, metrics)
calculateReward(problem, metrics) ==
    LET w == weights(problem.type)
        reward == metrics.overlapReduction * w.overlapReduction
                  + metrics.contextImprovement * w.contextImprovement
                  + metrics.structureCoherence * w.structureCoherence
                  + metrics.informationLoss * w.informationLoss
        half == reward + 10000
    IN  IF half < 0 THEN 0 ELSE IF half > 20000 THEN 20000 ELSE half

\* _evaluateOperation(operation, problem), the reward
evaluateOperation(operation, problem) ==
    calculateReward(problem, simulateOperation(operation, problem))

\* Mutant of bestIndex: the first candidate is taken.
bestIndex_First(rewards) == 1

\* bestIdx of _optimizeWithGRPO: the first of the highest rewards.
bestIndex(rewards) ==
    CHOOSE i \in 1..Len(rewards) :
        /\ \A j \in 1..Len(rewards) : rewards[j] <= rewards[i]
        /\ \A j \in 1..(i - 1) : rewards[j] < rewards[i]

\* _executeOperation(operation, problem): the store after it, and the
\* addNode() call a merge made.  move_layer is logged only; the switch has
\* no case for another type.
executeOperation(st, operation, vector, newContext, newId) ==
    IF operation.operationType = "merge"
    THEN executeMerge(st, operation.targetNodes, vector, newId)
    ELSE IF operation.operationType = "adjust_context"
    THEN [st |-> executeAdjustContext(st, operation.targetNodes, newContext),
          add |-> NoAdd]
    ELSE IF operation.operationType = "delete"
    THEN [st |-> executeDelete(st, operation.targetNodes), add |-> NoAdd]
    ELSE [st |-> st, add |-> NoAdd]

\* ------------------------------------------------------------------------
\* ExperienceLibrary
\* ------------------------------------------------------------------------

\* An experience: its pattern and its confidence in hundredths.  strategy,
\* avoid and the examples are carried along and never read by the library.
Experience(pattern, confidence) == [pattern |-> pattern, confidence |-> confidence]

\* The size new ExperienceLibrary() has by default: 50 in the code.
maxExperiences == 2

\* new ExperienceLibrary(maxExperiences)
Library(experiences, size) ==
    [experiences |-> experiences, maxExperiences |-> size]

\* Array.prototype.sort((a, b) => b.confidence - a.confidence): stable, the
\* highest confidence first.
RECURSIVE InsertByConfidence(_, _)
InsertByConfidence(e, sorted) ==
    IF sorted = <<>> THEN <<e>>
    ELSE IF Head(sorted).confidence >= e.confidence
         THEN <<Head(sorted)>> \o InsertByConfidence(e, Tail(sorted))
         ELSE <<e>> \o sorted

RECURSIVE SortByConfidence(_)
SortByConfidence(s) ==
    IF s = <<>> THEN <<>>
    ELSE InsertByConfidence(s[Len(s)], SortByConfidence(SubSeq(s, 1, Len(s) - 1)))

\* Mutant of boost: the confidence is raised without a cap.
boost_Uncapped(confidence) == confidence + 10

\* Math.min(similar.confidence + 0.1, 1.0)
boost(confidence) == Min(confidence + 10, 100)

\* Mutant of prune: the newest entries are kept.
prune_Oldest(experiences, size) ==
    IF Len(experiences) > size
    THEN SubSeq(experiences, Len(experiences) - size + 1, Len(experiences))
    ELSE experiences

\* The overflow branch of addExperience(): sort by confidence, keep the
\* first maxExperiences.
prune(experiences, size) ==
    IF Len(experiences) > size
    THEN SubSeq(SortByConfidence(experiences), 1, size)
    ELSE experiences

\* addExperience(exp)
addExperience(lib, exp) ==
    IF \E i \in 1..Len(lib.experiences) : lib.experiences[i].pattern = exp.pattern
    THEN LET k == CHOOSE i \in 1..Len(lib.experiences) :
                    /\ lib.experiences[i].pattern = exp.pattern
                    /\ \A j \in 1..(i - 1) : lib.experiences[j].pattern # exp.pattern
         IN  [lib EXCEPT !.experiences[k].confidence = boost(@)]
    ELSE [lib EXCEPT !.experiences = prune(Append(@, exp), lib.maxExperiences)]

RECURSIVE addExperiences(_, _)
addExperiences(lib, exps) ==
    IF exps = <<>> THEN lib ELSE addExperiences(addExperience(lib, Head(exps)), Tail(exps))

\* toJSON(): the object handed on, which fromJSON() may also be given as
\* null (given is FALSE).
toJSON(lib) == [given |-> TRUE, experiences |-> lib.experiences]

\* Mutant of fromJSON: the data is not taken over.
fromJSON_Fresh(data) == Library(<<>>, maxExperiences)

\* static fromJSON(data): a library of the default size holding
\* data.experiences.
fromJSON(data) ==
    IF data.given THEN Library(data.experiences, maxExperiences)
    ELSE Library(<<>>, maxExperiences)

\* ------------------------------------------------------------------------
\* Group-relative advantages and the experiences drawn from them
\* ------------------------------------------------------------------------

\* (r + ... + r) / n - r for n rewards r, as IEEE double arithmetic gives
\* it, by its sign: 0.8 + 0.8 + 0.8 is 2.4000000000000004, a third of which
\* is 0.8000000000000002; three times 0.7849999999999999 (adjust_context
\* for layer_imbalance) sum to 2.3549999999999995, a third of which is
\* 0.7849999999999998.  For the other rewards _calculateReward gives and
\* n up to groupSize the mean is r.
meanDrift(reward, n) ==
    IF n = 3 /\ reward = 16000 THEN 1
    ELSE IF n = 3 /\ reward = 15700 THEN -1
    ELSE 0

\* Mutant of meanDrift: the mean of equal rewards is exact.
meanDrift_Exact(reward, n) == 0

\* _computeGroupAdvantages(results): advantage i is num[i] / sqrt(den2).
\* With mean = sum / n and std = sqrt(sum of (r - mean)^2 / n),
\* (r - mean) / std = (n * r - sum) / sqrt(n * sum of r^2 - sum^2); rewards
\* are taken in units of 1/2000.  Rewards that are all equal give std 0 and
\* advantages 0, unless the mean is off by rounding: then r - mean and std
\* have the same size and every advantage is 1 or -1.
computeGroupAdvantages(rewards) ==
    LET n == Len(rewards)
        r == [i \in 1..n |-> rewards[i] \div 10]
        sum == SumSeq(r)
        den2 == n * SumSeq([i \in 1..n |-> r[i] * r[i]]) - sum * sum
    IN  IF n = 0 THEN [num |-> <<>>, den2 |-> 1]
        ELSE IF den2 = 0
             THEN [num |-> [i \in 1..n |-> 0 - meanDrift(rewards[1], n)], den2 |-> 1]
             ELSE [num |-> [i \in 1..n |-> n * r[i] - sum], den2 |-> den2]

\* bestIdx and worstIdx of _extractExperiences: the first of the highest
\* and the first of the lowest advantages.
firstHighest(num) ==
    CHOOSE i \in 1..Len(num) :
        /\ \A j \in 1..Len(num) : num[j] <= num[i]
        /\ \A j \in 1..(i - 1) : num[j] < num[i]

firstLowest(num) ==
    CHOOSE i \in 1..Len(num) :
        /\ \A j \in 1..Len(num) : num[j] >= num[i]
        /\ \A j \in 1..(i - 1) : num[j] > num[i]

\* The embedding of the text a merge writes.
MergedVecs == {<<9, 4>>}

\* What callModel() answers when asked for a lesson: nothing usable, or a
\* JSON object with a pattern and a confidence.
NoLesson == [ok |-> FALSE, pattern |-> <<"none", 0>>, confidence |-> 0]

Lessons == {NoLesson, [ok |-> TRUE, pattern |-> <<"lesson", 0>>, confidence |-> 90]}

\* _extractExperiences(results, advantages, problem): nothing for fewer
\* than two results or for advantages less than 0.5 apart
\* (|a - b| / sqrt(den2) < 1/2); otherwise the heuristic experience, or the
\* lesson the model gave.
extractExperiences(advantages, problem, hasModel, lesson) ==
    IF Len(advantages.num) < 2 THEN <<>>
    ELSE LET spread == advantages.num[firstHighest(advantages.num)]
                       - advantages.num[firstLowest(advantages.num)]
         IN  IF 4 * spread * spread < advantages.den2 THEN <<>>
             ELSE IF ~hasModel
                  THEN <<Experience(<<problem.type, problem.layer>>, 70)>>
             ELSE IF lesson.ok
                  THEN <<Experience(lesson.pattern, lesson.confidence)>>
             ELSE <<>>

\* What _optimizeWithGRPO(problem, goal) does: the candidates, their
\* rewards and advantages, the experiences extracted, the operations handed
\* to _executeOperation, the store after, and whether the call threw
\* (addNode() failing inside a merge).
NoGRPO == [problem |-> Problem("none", <<>>, 0, 0), candidates |-> <<>>,
           rewards |-> <<>>, advantages |-> [num |-> <<>>, den2 |-> 1],
           extracted |-> <<>>, executed |-> <<>>]

\* The record of a call: what _executeOperation left (done), whether it
\* threw, and the group as evaluated.
settleGRPO(problem, candidates, rewards, extracted, executed, done) ==
    [done |-> done,
     threw |-> (done.add.facts.called /\ ~done.add.ok),
     grpo |-> [problem |-> problem, candidates |-> candidates, rewards |-> rewards,
               advantages |-> computeGroupAdvantages(rewards),
               extracted |-> extracted, executed |-> executed]]

\* Step 5 of _optimizeWithGRPO: the best candidate is executed if its
\* reward is above the threshold.
executeBest(st, problem, candidates, rewards, extracted, best, threshold, vector, newContext, newId) ==
    IF rewards[best] > threshold
    THEN settleGRPO(problem, candidates, rewards, extracted, <<candidates[best]>>,
                    executeOperation(st, candidates[best], vector, newContext, newId))
    ELSE settleGRPO(problem, candidates, rewards, extracted, <<>>,
                    [st |-> st, add |-> NoAdd])

\* Steps 3 to 5 of _optimizeWithGRPO, given the rewards.
learnFromGroup(st, problem, candidates, rewards, hasModel, lesson, threshold, vector, newContext, newId) ==
    executeBest(st, problem, candidates, rewards,
                extractExperiences(computeGroupAdvantages(rewards), problem, hasModel,
                                   lesson),
                bestIndex(rewards), threshold, vector, newContext, newId)

\* Steps 2 to 5 of _optimizeWithGRPO, given the candidates.
evaluateGroup(st, problem, candidates, hasModel, lesson, threshold, vector, newContext, newId) ==
    IF Len(candidates) = 0
    THEN settleGRPO(problem, candidates, <<>>, <<>>, <<>>, [st |-> st, add |-> NoAdd])
    ELSE \* results = candidates.map(op => this._evaluateOperation(op, problem))
         learnFromGroup(st, problem, candidates,
                        [i \in 1..Len(candidates) |->
                            evaluateOperation(candidates[i], problem)],
                        hasModel, lesson, threshold, vector, newContext, newId)

optimizeWithGRPO(st, problem, hasModel, threshold, response, lesson, vector, newContext, newId) ==
    evaluateGroup(st, problem, generateOperationGroup(problem, hasModel, response),
                  hasModel, lesson, threshold, vector, newContext, newId)

\* ------------------------------------------------------------------------
\* The store's operations as steps
\* ------------------------------------------------------------------------
Store == [t |-> table, c |-> nodeCache]

KnownIds == { table[i].id : i \in 1..Len(table) }

\* An id no row carries.
MissingId == "n0"

\* The record kept of an addNode() call: whether its arguments met one of
\* the conditions under which it has to fail, whether it returned, the parent
\* it was given if it did, and the rows the table gained.
addRecord(made, tableBefore) ==
    [called |-> TRUE,
     mustFail |-> (\/ ~made.facts.layerInRange
                   \/ made.facts.parentMissing
                   \/ made.facts.parentWrongLayer
                   \/ made.facts.parentFull),
     ok |-> made.ok,
     parentId |-> IF made.ok THEN made.facts.parentId ELSE NullId,
     rowsAdded |-> Len(made.st.t) - Len(tableBefore)]

NoAddRecord ==
    [called |-> FALSE, mustFail |-> FALSE, ok |-> FALSE, parentId |-> NullId,
     rowsAdded |-> 0]

\* The state after an operation that may have called addNode().
Commit(res, tableBefore) ==
    /\ table' = res.st.t
    /\ nodeCache' = res.st.c
    /\ nextId' = IF res.add.ok THEN nextId + 1 ELSE nextId
    /\ lastAdd' = IF res.add.facts.called THEN addRecord(res.add, tableBefore) ELSE lastAdd
    /\ UNCHANGED scanOrder

\* The bounds of the model: an operation is taken when the table it leaves
\* fits, and while ids are left.
HasRoom == nextId < MaxIds

\* Ids a run of the optimizer may take for its merged nodes once the
\* callers of addNode() have taken theirs.
MergedIds == 1

Fits(t) == Len(t) <= MaxRows

\* A caller's addNode({content, context, layer, parentId}).
AddNode(layer, parentId, vector, context) ==
    /\ HasRoom
    /\ LET made == addNode(Store, layer, parentId, vector, context, NodeIds[nextId + 1])
       IN  Fits(made.st.t) /\ Commit([st |-> made.st, add |-> made], table)
    /\ UNCHANGED <<wmVars, agentVars, optVars>>

\* The depths traverseSearch() is called with: 2 by saveToLongTermMemory(),
\* 3 by default.
SearchDepths == {2, 3}

\* A caller's traverseSearch(query, maxDepth).
TraverseSearch(q, maxDepth) ==
    /\ LET found == traverseSearch(Store, q, maxDepth)
       IN  /\ Fits(found.st.t)
           /\ table' = found.st.t
           /\ nodeCache' = found.st.c
    /\ UNCHANGED <<scanOrder, nextId, lastAdd>>
    /\ UNCHANGED <<wmVars, agentVars, optVars>>

\* WorkingMemory commits an evicted item.
SaveToLongTermMemory(engine, vector, relationship, failure) ==
    /\ HasRoom
    /\ LET saved == saveToLongTermMemory(Store, engine, vector, relationship, failure,
                                         NodeIds[nextId + 1])
       IN  /\ Fits(saved.st.t)
           /\ Commit(saved, IF engine /\ failure # "search"
                            THEN traverseSearch(Store, vector, 2).st.t ELSE table)
    /\ UNCHANGED <<wmVars, agentVars, optVars>>

\* The optimizer executes the operation it chose.
ExecuteMerge(nodeIds, vector) ==
    /\ HasRoom
    /\ LET merged == executeMerge(Store, nodeIds, vector, NodeIds[nextId + 1])
       IN  Fits(merged.st.t) /\ Commit(merged, table)
    /\ UNCHANGED <<wmVars, agentVars, optVars>>

ExecuteAdjustContext(nodeIds, newContext) ==
    /\ LET st == executeAdjustContext(Store, nodeIds, newContext)
       IN  /\ Fits(st.t)
           /\ table' = st.t
           /\ nodeCache' = st.c
    /\ UNCHANGED <<scanOrder, nextId, lastAdd>>
    /\ UNCHANGED <<wmVars, agentVars, optVars>>

ExecuteDelete(nodeIds) ==
    /\ LET st == executeDelete(Store, nodeIds)
       IN  /\ st.c # nodeCache
           /\ table' = st.t
           /\ nodeCache' = st.c
    /\ UNCHANGED <<scanOrder, nextId, lastAdd>>
    /\ UNCHANGED <<wmVars, agentVars, optVars>>

\* dispose(), and the initialize() of the next run on the same dataDir: the
\* cache starts empty, the table is the one on disk, and ensureRootNode()
\* reads the root.
Reopen ==
    /\ table' = table
    /\ nodeCache' = afterGetNode([t |-> table, c |-> <<>>], RootId).c
    /\ nodeCache' # nodeCache
    /\ UNCHANGED <<scanOrder, nextId, lastAdd>>
    /\ UNCHANGED <<wmVars, agentVars, optVars>>

\* ------------------------------------------------------------------------
\* The optimizer's steps
\* ------------------------------------------------------------------------

\* runOptimization() as called: before its first epoch.
NewRun == [epoch |-> 0, identified |-> FALSE, todo |-> <<>>]

Remove(s, k) == SubSeq(s, 1, k - 1) \o SubSeq(s, k + 1, Len(s))

\* shouldOptimize of tick()
shouldOptimize(count, t, last) == count % 10 = 0 \/ t - last > HourMs

KeepOptions == UNCHANGED <<callModel, rewardThreshold, settled, sandboxes, loop2, calls>>

\* tick(): runOptimization() is called and not awaited.
Tick ==
    /\ conversationCount < MaxTicks
    /\ conversationCount' = conversationCount + 1
    /\ IF shouldOptimize(conversationCount + 1, now, lastOptimizationTime)
       THEN Len(runs) < MaxRuns /\ runs' = Append(runs, NewRun)
       ELSE UNCHANGED runs
    /\ UNCHANGED <<optimizationCount, lastOptimizationTime, grpo, experienceLibrary>>
    /\ KeepOptions
    /\ UNCHANGED <<wmVars, storeVars, agentVars>>

\* An hour and a millisecond pass.
TimePasses ==
    /\ now < MaxHours * HourMs
    /\ now' = now + HourMs + 1
    /\ KeepWM
    /\ UNCHANGED <<storeVars, agentVars, optVars>>

\* The k-th run in progress begins an epoch: _identifyProblems(goal), of
\* which up to 5 problems are taken.
IdentifyProblems(k) ==
    /\ k \in 1..Len(runs)
    /\ ~runs[k].identified
    /\ runs[k].epoch < numEpochs
    /\ LET problems == identifyProblems(table)
       IN  runs' = [runs EXCEPT ![k] =
                       IF Len(problems) = 0
                       THEN [@ EXCEPT !.epoch = @ + 1]
                       ELSE [@ EXCEPT !.identified = TRUE,
                                      !.todo = SubSeq(problems, 1, Min(5, Len(problems)))]]
    /\ UNCHANGED <<conversationCount, optimizationCount, lastOptimizationTime, grpo,
                   experienceLibrary>>
    /\ KeepOptions
    /\ UNCHANGED <<wmVars, storeVars, agentVars>>

\* The k-th run in progress takes the next problem of its epoch:
\* _optimizeWithGRPO(problem, goal).  A throw ends the run, caught by tick().
\* ids bounds the node ids the behaviour has taken before a merge takes one.
OptimizeWithGRPOWithin(ids, k, response, lesson, vector, newContext) ==
    /\ k \in 1..Len(runs)
    /\ runs[k].identified
    /\ \E res \in {optimizeWithGRPO(Store, Head(runs[k].todo), callModel, rewardThreshold,
                                     response, lesson, vector, newContext,
                                     NodeIds[nextId + 1])},
          left \in {Tail(runs[k].todo)} :
           /\ res.done.add.ok => nextId < ids
           /\ Fits(res.done.st.t)
           /\ Commit(res.done, table)
           /\ grpo' = res.grpo
           /\ experienceLibrary' = addExperiences(experienceLibrary, res.grpo.extracted)
           /\ runs' = IF res.threw THEN Remove(runs, k)
                      ELSE [runs EXCEPT ![k] =
                               IF left = <<>>
                               THEN [epoch |-> @.epoch + 1, identified |-> FALSE,
                                     todo |-> <<>>]
                               ELSE [@ EXCEPT !.todo = left]]
    /\ UNCHANGED <<conversationCount, optimizationCount, lastOptimizationTime>>
    /\ KeepOptions
    /\ UNCHANGED <<wmVars, agentVars>>

OptimizeWithGRPO(k, response, lesson, vector, newContext) ==
    OptimizeWithGRPOWithin(MaxIds, k, response, lesson, vector, newContext)

\* The k-th run in progress is through its epochs.
Complete(k) ==
    /\ k \in 1..Len(runs)
    /\ ~runs[k].identified
    /\ runs[k].epoch = numEpochs
    /\ optimizationCount' = optimizationCount + 1
    /\ lastOptimizationTime' = now
    /\ runs' = Remove(runs, k)
    /\ UNCHANGED <<conversationCount, grpo, experienceLibrary>>
    /\ KeepOptions
    /\ UNCHANGED <<wmVars, storeVars, agentVars>>

\* ------------------------------------------------------------------------
\* ContinuousAgent: the OODA loop of start()
\* ------------------------------------------------------------------------
\* pc is the place start() has reached: "idle" before the call, "init" at
\* `await this.initialize()`, "head" at the test of the while, then the
\* phase about to run ("observe", "orient", "decide", "act", "sleep"), the
\* external call a phase waits for ("orient_llm", "think_llm", "decide_llm",
\* "act_io"), "errsleep" in the catch block, "sleeping" while the timer
\* runs, and "returned".  The handlers onUserMessage, onSystemEvent and
\* stop run between any two of these steps.

MaxCycles == 2      \* cycles of the loop per behaviour
MaxEvents == 2      \* events enqueued per behaviour

\* config.cycleDelay
cycleDelay == 500

\* What the model's ORID call can come back as: a JSON object that says to
\* act, anything that does not (an object saying no, unparsable text that
\* parseJSON turns into {}, or the fallback after an API error), and the
\* JSON text `null`.
OridOutcomes == {"act", "noact", "null"}

\* What the decision call can come back as: a JSON object with one of the
\* actions of the prompt or with "wait", unparsable text ("undefined": the
\* object {} has no action), the JSON text `null`, and an API error.
\* use_tool is split by whether the tool named is symbolic_reasoning and
\* available.
Decisions == {"respond_to_user", "use_tool", "use_tool_unavailable",
              "internal_processing", "wait_and_observe", "wait", "undefined"}
DecisionOutcomes == Decisions \cup {"null", "error"}

\* What composeResponse() comes back as: an object with content, an object
\* without (response.content.substring then throws), or an error.
RespondOutcomes == {"sent", "sent_without_content", "failed"}

\* What symbolicReasoning.reason() comes back as: a result reported to the
\* user, a result kept, or an error.
ToolOutcomes == {"reported", "kept", "failed"}

NoOrientation == [some |-> FALSE, trigger |-> "undefined", orid |-> "noact"]

\* The observation observe() builds of an event.
EventObservation(event) ==
    [type |-> "event", sub |-> event.type,
     needsResponse |-> (event.type = "user_message"),
     priority |-> event.priority, serial |-> event.serial]

InternalObservation ==
    [type |-> "internal", sub |-> "time_to_think", needsResponse |-> FALSE,
     priority |-> "normal", serial |-> TRUE]

AttentionObservation ==
    [type |-> "attention", sub |-> "focus", needsResponse |-> FALSE,
     priority |-> "normal", serial |-> TRUE]

\* The item add() is given for an observation.
ItemOf(obs) == [type |-> obs.type, sub |-> obs.sub, needsResponse |-> obs.needsResponse]

ThinkingItem(trigger) ==
    [type |-> "agent_thinking", sub |-> trigger, needsResponse |-> FALSE]

ActionItem(action) ==
    [type |-> "agent_action", sub |-> action, needsResponse |-> FALSE]

\* Mutant of shift: the head is read and left in the queue.
shift_Peek(queue) == queue

\* eventQueue.shift(): the queue that is left.
shift(queue) == IF queue = <<>> THEN <<>> ELSE Tail(queue)

\* Mutant of observe: the primary focus is not looked at.
observe_NoFocus(queue, thinkDue, primary) ==
    (IF queue # <<>> THEN <<EventObservation(Head(queue))>> ELSE <<>>)
    \o (IF thinkDue THEN <<InternalObservation>> ELSE <<>>)

\* observe(): the observations, in the order pushed.
observe(queue, thinkDue, primary) ==
    (IF queue # <<>> THEN <<EventObservation(Head(queue))>> ELSE <<>>)
    \o (IF thinkDue THEN <<InternalObservation>> ELSE <<>>)
    \o (IF primary # NoItem THEN <<AttentionObservation>> ELSE <<>>)

\* selectMostImportant(observations): the first of the stable sort by
\* priority, high before normal (an absent priority counts as normal).
selectMostImportant(obs) ==
    IF \E i \in 1..Len(obs) : obs[i].priority = "high"
    THEN obs[CHOOSE i \in 1..Len(obs) :
                /\ obs[i].priority = "high"
                /\ \A j \in 1..(i - 1) : obs[j].priority # "high"]
    ELSE obs[1]

\* The agent is constructed with {thinkingProbability: 0}.
ThinkingOption == 0

\* `options.thinkingProbability || 0.05`, in hundredths: an option that is
\* not given, or is 0, gives the default.
thinkingProbability(option) == IF option = 0 THEN 5 ELSE option

\* Mutant of calculateCycleDelay: the base delay whatever is queued.
calculateCycleDelay_Base(queue) == cycleDelay

\* calculateCycleDelay()
calculateCycleDelay(queue) ==
    IF \E i \in 1..Len(queue) : queue[i].priority = "high" THEN 100 ELSE cycleDelay

\* Mutant of loopCondition: while (true).
loopCondition_Always(running) == TRUE

\* The test of the while in start().
loopCondition(running) == running

\* Mutant of catchTarget: no try around the phases, the error leaves start().
catchTarget_None(phase) == "crashed"

\* Where an error thrown by a phase is taken: the catch block of the loop.
catchTarget(phase) == "errsleep"

\* Mutant of awaitAct: the loop goes on without waiting for act().
awaitAct_Detached(action) == "sleep"

\* Where the loop stands while act() waits for its external call.
awaitAct(action) == "act_io"

\* The action name act() records for a decision.
actionName(d) == IF d = "use_tool_unavailable" THEN "use_tool" ELSE d

\* recordAction(action, 'completed'): the last 10 are kept.
recordCompleted(done, action) ==
    LET all == Append(done, action)
    IN  IF Len(all) > 10 THEN SubSeq(all, Len(all) - 9, Len(all)) ELSE all

\* workingMemory.getRecent(n) on the working memory as a value.
recent(wm, n) == [wm EXCEPT !.items = getRecent(@, n)]

\* ------------------------------------------------------------------------
\* The steps of start() and the handlers
\* ------------------------------------------------------------------------
KeepStore == UNCHANGED <<storeVars, optVars>>

\* The variables the steps below name when they leave them alone.
loopVars == <<isRunning, cycleCount, eventQueue, observations, orientation, decision,
              lastThinkTime, delay, ongoing, completed, emitted, nextEvent, dequeued,
              stopCycle>>

\* start(): isRunning = true, then `await this.initialize()`.
Start ==
    /\ pc = "idle"
    /\ isRunning' = TRUE
    /\ pc' = "init"
    /\ UNCHANGED <<cycleCount, eventQueue, observations, orientation, decision,
                   lastThinkTime, delay, ongoing, completed, emitted, nextEvent,
                   dequeued, phases, actPending, stopCycle, now>>
    /\ KeepWM /\ KeepStore

\* initialize() has resolved.
Initialized ==
    /\ pc = "init"
    /\ pc' = "head"
    /\ UNCHANGED <<loopVars, phases, actPending, now>>
    /\ KeepWM /\ KeepStore

\* while (this.isRunning) { try { this.cycleCount++ ...
LoopHead ==
    /\ pc = "head"
    /\ IF loopCondition(isRunning)
       THEN /\ cycleCount < MaxCycles
            /\ cycleCount' = cycleCount + 1
            /\ phases' = <<>>
            /\ pc' = "observe"
       ELSE /\ pc' = "returned"
            /\ UNCHANGED <<cycleCount, phases>>
    /\ UNCHANGED <<isRunning, eventQueue, observations, orientation, decision,
                   lastThinkTime, delay, ongoing, completed, emitted, nextEvent,
                   dequeued, actPending, stopCycle, now>>
    /\ KeepWM /\ KeepStore

\* observe()
Observe ==
    /\ pc = "observe"
    /\ observations' = observe(eventQueue, now - lastThinkTime > 30000, attention.primary)
    /\ dequeued' = IF eventQueue # <<>> THEN Append(dequeued, Head(eventQueue))
                   ELSE dequeued
    /\ eventQueue' = shift(eventQueue)
    /\ phases' = Append(phases, "observe")
    /\ pc' = "orient"
    /\ UNCHANGED <<isRunning, cycleCount, orientation, decision, lastThinkTime, delay,
                   ongoing, completed, emitted, nextEvent, actPending, stopCycle, now>>
    /\ KeepWM /\ KeepStore

\* orient(observations) with nothing observed: when Math.random() is below
\* config.thinkingProbability autonomousThinking() runs, on a plain topic or on a
\* dialectic one, which reads getRecent(10) and, given two memories, asks
\* the model.  The orientation is null in every case.
OrientIdle(think, dialectic) ==
    /\ pc = "orient"
    /\ observations = <<>>
    /\ think => thinkingProbability(ThinkingOption) > 0
    /\ phases' = Append(phases, "orient")
    /\ orientation' = NoOrientation
    /\ lastThinkTime' = IF think THEN now ELSE lastThinkTime
    /\ IF think /\ dialectic
       THEN /\ SetWM(recent(WM, 10))
            /\ pc' = IF Len(items) < 2 THEN "decide" ELSE "think_llm"
       ELSE /\ KeepWM
            /\ pc' = "decide"
    /\ UNCHANGED <<isRunning, cycleCount, eventQueue, observations, decision, delay,
                   ongoing, completed, emitted, nextEvent, dequeued, actPending,
                   stopCycle, now>>
    /\ KeepStore

\* The dialectic call has come back; a finding is added to working memory.
ThinkReturn(finding) ==
    /\ pc = "think_llm"
    /\ IF finding THEN SetWM(add(WM, ThinkingItem("dialectic"), now)) ELSE KeepWM
    /\ pc' = "decide"
    /\ UNCHANGED <<loopVars, phases, actPending, now>>
    /\ KeepStore

\* orient(observations) with something observed: the most important
\* observation is added to working memory, buildORIDPrompt() reads
\* getRecent(5) and serializes the observation (JSON.stringify throws on a
\* payload it cannot serialize), and the model is asked.
Orient ==
    /\ pc = "orient"
    /\ observations # <<>>
    /\ \E observation \in {selectMostImportant(observations)} :
       \E remembered \in {add(WM, ItemOf(observation), now)} :
           /\ SetWM(recent(remembered, 5))
           /\ orientation' = [some |-> TRUE,
                              trigger |-> IF observation.type = "event"
                                          THEN observation.sub ELSE "undefined",
                              orid |-> "noact"]
           /\ pc' = IF observation.serial THEN "orient_llm" ELSE catchTarget("orient")
    /\ phases' = Append(phases, "orient")
    /\ UNCHANGED <<isRunning, cycleCount, eventQueue, observations, decision,
                   lastThinkTime, delay, ongoing, completed, emitted, nextEvent,
                   dequeued, actPending, stopCycle, now>>
    /\ KeepStore

\* The ORID call has come back.  The text `null` is let through while the
\* loop has a cycle left to run after the error it causes.
OrientReturn(orid) ==
    /\ pc = "orient_llm"
    /\ orid = "null" => cycleCount < MaxCycles
    /\ orientation' = [orientation EXCEPT !.orid = orid]
    /\ pc' = "decide"
    /\ UNCHANGED <<isRunning, cycleCount, eventQueue, observations, decision,
                   lastThinkTime, delay, ongoing, completed, emitted, nextEvent,
                   dequeued, phases, actPending, stopCycle, now>>
    /\ KeepWM /\ KeepStore

\* decide(orientation) up to its return or its call of the model.
\* orid.decisional on a null orid throws, outside the try.
Decide ==
    /\ pc = "decide"
    /\ phases' = Append(phases, "decide")
    /\ IF ~orientation.some THEN decision' = "wait" /\ pc' = "act"
       ELSE IF orientation.orid = "null"
            THEN decision' = decision /\ pc' = catchTarget("decide")
       ELSE IF orientation.orid = "noact" THEN decision' = "wait" /\ pc' = "act"
       ELSE decision' = decision /\ pc' = "decide_llm"
    /\ UNCHANGED <<isRunning, cycleCount, eventQueue, observations, orientation,
                   lastThinkTime, delay, ongoing, completed, emitted, nextEvent,
                   dequeued, actPending, stopCycle, now>>
    /\ KeepWM /\ KeepStore

\* The decision call has come back.  What parseJSON gives is added to
\* working memory as agent_thinking; on `null` the log line then throws,
\* and the catch gives {action: 'wait'}, as it does on an API error.
DecideReturn(outcome) ==
    /\ pc = "decide_llm"
    /\ IF outcome = "error" THEN KeepWM
       ELSE SetWM(add(WM, ThinkingItem(orientation.trigger), now))
    /\ decision' = IF outcome \in {"error", "null"} THEN "wait" ELSE outcome
    /\ pc' = "act"
    /\ UNCHANGED <<isRunning, cycleCount, eventQueue, observations, orientation,
                   lastThinkTime, delay, ongoing, completed, emitted, nextEvent,
                   dequeued, phases, actPending, stopCycle, now>>
    /\ KeepStore

\* act(decision) up to its return or its external call.
Act ==
    /\ pc = "act"
    /\ phases' = Append(phases, "act")
    /\ IF decision = "wait"
       THEN /\ pc' = "sleep"
            /\ UNCHANGED <<ongoing, completed, lastThinkTime, actPending>>
       ELSE /\ ongoing' = Append(ongoing, actionName(decision))
            /\ IF decision \in {"respond_to_user", "use_tool"}
               THEN /\ pc' = awaitAct(decision)
                    /\ actPending' = TRUE
                    /\ UNCHANGED <<completed, lastThinkTime>>
               ELSE /\ pc' = "sleep"
                    /\ completed' = recordCompleted(completed, actionName(decision))
                    /\ lastThinkTime' = IF decision = "internal_processing"
                                        THEN now ELSE lastThinkTime
                    /\ UNCHANGED actPending
    /\ UNCHANGED <<isRunning, cycleCount, eventQueue, observations, orientation,
                   decision, delay, emitted, nextEvent, dequeued, stopCycle, now>>
    /\ KeepWM /\ KeepStore

\* respondToUser(): composeResponse() has come back.
RespondReturn(outcome) ==
    /\ pc = "act_io"
    /\ decision = "respond_to_user"
    /\ IF outcome = "failed"
       THEN KeepWM /\ UNCHANGED <<emitted, completed>>
       ELSE /\ SetWM(add(WM, ActionItem("respond_to_user"), now))
            /\ emitted' = emitted + 1
            /\ completed' = IF outcome = "sent"
                            THEN recordCompleted(completed, "respond_to_user")
                            ELSE completed
    /\ actPending' = FALSE
    /\ pc' = "sleep"
    /\ UNCHANGED <<isRunning, cycleCount, eventQueue, observations, orientation,
                   decision, lastThinkTime, delay, ongoing, nextEvent, dequeued,
                   phases, stopCycle, now>>
    /\ KeepStore

\* useTool(): symbolicReasoning.reason() has come back.
ToolReturn(outcome) ==
    /\ pc = "act_io"
    /\ decision = "use_tool"
    /\ IF outcome = "failed"
       THEN KeepWM /\ UNCHANGED <<emitted, completed>>
       ELSE /\ SetWM(add(WM, ActionItem("symbolic_reasoning"), now))
            /\ emitted' = IF outcome = "reported" THEN emitted + 1 ELSE emitted
            /\ completed' = recordCompleted(completed, "use_tool")
    /\ actPending' = FALSE
    /\ pc' = "sleep"
    /\ UNCHANGED <<isRunning, cycleCount, eventQueue, observations, orientation,
                   decision, lastThinkTime, delay, ongoing, nextEvent, dequeued,
                   phases, stopCycle, now>>
    /\ KeepStore

\* await this.sleep(this.calculateCycleDelay())
Sleep ==
    /\ pc = "sleep"
    /\ phases' = Append(phases, "sleep")
    /\ delay' = calculateCycleDelay(eventQueue)
    /\ pc' = "sleeping"
    /\ UNCHANGED <<isRunning, cycleCount, eventQueue, observations, orientation,
                   decision, lastThinkTime, ongoing, completed, emitted, nextEvent,
                   dequeued, actPending, stopCycle, now>>
    /\ KeepWM /\ KeepStore

\* catch (error) { await this.sleep(1000) }
ErrSleep ==
    /\ pc = "errsleep"
    /\ phases' = Append(phases, "error")
    /\ delay' = 1000
    /\ pc' = "sleeping"
    /\ UNCHANGED <<isRunning, cycleCount, eventQueue, observations, orientation,
                   decision, lastThinkTime, ongoing, completed, emitted, nextEvent,
                   dequeued, actPending, stopCycle, now>>
    /\ KeepWM /\ KeepStore

\* The timer fires: after the delay asked for, or late.
Wake(late) ==
    /\ pc = "sleeping"
    /\ now' = now + (IF late THEN 31000 ELSE delay)
    /\ pc' = "head"
    /\ UNCHANGED <<loopVars, phases, actPending>>
    /\ KeepWM /\ KeepStore

\* A cycle has taken its events and has not gone to sleep.
MidCycle == pc \in {"orient", "orient_llm", "think_llm", "decide", "decide_llm", "act",
                    "act_io", "sleep"}

\* An event is taken while the loop has cycles left to observe it.
CanEnqueue(needed) ==
    /\ nextEvent < MaxEvents
    /\ Len(eventQueue) + needed <= MaxCycles - cycleCount

Event(type, priority, serial) ==
    [id |-> nextEvent + 1, type |-> type, priority |-> priority, serial |-> serial,
     midCycle |-> MidCycle]

\* onUserMessage(message)
OnUserMessage ==
    /\ CanEnqueue(1)
    /\ eventQueue' = Append(eventQueue, Event("user_message", "high", TRUE))
    /\ nextEvent' = nextEvent + 1
    /\ UNCHANGED <<pc, isRunning, cycleCount, observations, orientation, decision,
                   lastThinkTime, delay, ongoing, completed, emitted, dequeued,
                   phases, actPending, stopCycle, now>>
    /\ KeepWM /\ KeepStore

\* onSystemEvent(event); serial says whether JSON.stringify takes the
\* payload.  One that it does not take makes its cycle end in the catch
\* block, and is given while a cycle is left after that one.
OnSystemEvent(serial) ==
    /\ CanEnqueue(IF serial THEN 1 ELSE 2)
    /\ eventQueue' = Append(eventQueue, Event("system_event", "normal", serial))
    /\ nextEvent' = nextEvent + 1
    /\ UNCHANGED <<pc, isRunning, cycleCount, observations, orientation, decision,
                   lastThinkTime, delay, ongoing, completed, emitted, dequeued,
                   phases, actPending, stopCycle, now>>
    /\ KeepWM /\ KeepStore

\* stop()
Stop ==
    /\ isRunning
    /\ isRunning' = FALSE
    /\ stopCycle' = cycleCount
    /\ UNCHANGED <<pc, cycleCount, eventQueue, observations, orientation, decision,
                   lastThinkTime, delay, ongoing, completed, emitted, nextEvent,
                   dequeued, phases, actPending, now>>
    /\ KeepWM /\ KeepStore

\* ------------------------------------------------------------------------
\* Specifications
\* ------------------------------------------------------------------------

\* The first initialize(): createTable() writes the root row and
\* ensureRootNode() reads it.
StoreFresh ==
    /\ table = <<rootRow>>
    /\ nodeCache = <<rootRow>>
    /\ nextId = 0
    /\ lastAdd = NoAddRecord

WMFresh ==
    /\ items = <<>>
    /\ attention = [primary |-> NoItem, secondary |-> <<>>]
    /\ now = 1
    /\ nextSeq = 0
    /\ pruned = <<>>
    /\ offered = <<>>

\* new MemoryOptimizer(rag, opts), but for the options.
OptFresh ==
    /\ conversationCount = 0
    /\ optimizationCount = 0
    /\ lastOptimizationTime = now
    /\ runs = <<>>
    /\ grpo = NoGRPO
    /\ experienceLibrary = Library(<<>>, maxExperiences)
    /\ settled = 0
    /\ sandboxes = <<>>
    /\ loop2 = "idle"
    /\ calls = <<>>

\* new ContinuousAgent(options)
AgentFresh ==
    /\ pc = "idle"
    /\ isRunning = FALSE
    /\ cycleCount = 0
    /\ eventQueue = <<>>
    /\ observations = <<>>
    /\ orientation = NoOrientation
    /\ decision = "wait"
    /\ lastThinkTime = now
    /\ delay = 0
    /\ ongoing = <<>>
    /\ completed = <<>>
    /\ emitted = 0
    /\ nextEvent = 0
    /\ dequeued = <<>>
    /\ phases = <<>>
    /\ actPending = FALSE
    /\ stopCycle = -1

\* new WorkingMemory(maxSize, longTermMemory); the clock starts at a
\* non-zero reading, as Date.now() does.
WMInit ==
    /\ maxSize \in MaxSizes
    /\ hasLTM \in BOOLEAN
    /\ WMFresh
    /\ StoreFresh
    /\ scanOrder = "oldest_first"
    /\ AgentFresh
    /\ OptFresh
    /\ callModel = FALSE
    /\ rewardThreshold = Reward(6)

WMNext ==
    \/ \E item \in WMInputs, dt \in Dts : Add(item, dt)
    \/ \E n \in RecentNs : ReadsLeft(n, MaxAccess) /\ GetRecent(n)

WMSpec == WMInit /\ [][WMNext]_vars

\* The working memory read often: getRecent(5), as buildORIDPrompt() calls
\* it, raises the access counts past the 3 of shouldRemember().
RetentionNext ==
    \/ \E item \in WMInputs, dt \in Dts : Add(item, dt)
    \/ ReadsLeft(5, MaxReads) /\ GetRecent(5)

RetentionSpec == WMInit /\ [][RetentionNext]_vars


StoreInit ==
    /\ StoreFresh
    /\ scanOrder \in {"oldest_first", "newest_first"}
    /\ WMFresh
    /\ maxSize = 20
    /\ hasLTM = TRUE
    /\ AgentFresh
    /\ OptFresh
    /\ callModel = FALSE
    /\ rewardThreshold = Reward(6)

StoreNext ==
    \/ \E layer \in (-1)..maxLayers, parentId \in KnownIds \cup {MissingId},
          vector \in EmbedVecs, context \in ContextLens :
            AddNode(layer, parentId, vector, context)
    \/ \E q \in EmbedVecs, maxDepth \in SearchDepths : TraverseSearch(q, maxDepth)
    \/ \E engine \in BOOLEAN, vector \in EmbedVecs, relationship \in Relationships,
          failure \in Failures :
            SaveToLongTermMemory(engine, vector, relationship, failure)
    \/ \E id1 \in KnownIds, id2 \in KnownIds, vector \in EmbedVecs :
            ExecuteMerge(<<id1, id2>>, vector)
    \/ \E id \in KnownIds, newContext \in AdjustedLens : ExecuteAdjustContext(<<id>>, newContext)
    \/ \E id \in KnownIds : ExecuteDelete(<<id>>)
    \/ Reopen

StoreSpec == StoreInit /\ [][StoreNext]_vars


\* The optimizer on a store that is written to: new MemoryOptimizer(rag,
\* opts) with or without callModel, rewardThreshold 0.5 or the default.
OptInit ==
    /\ StoreFresh
    /\ scanOrder = "oldest_first"
    /\ WMFresh
    /\ maxSize = 20
    /\ hasLTM = TRUE
    /\ AgentFresh
    /\ OptFresh
    /\ callModel \in BOOLEAN
    /\ rewardThreshold \in RewardThresholds

OptNext ==
    \/ \E vector \in EmbedVecs, context \in ContextLens :
            AddNode(1, RootId, vector, context)
    \/ \E vector \in EmbedVecs : SaveToLongTermMemory(FALSE, vector, "novel", "none")
    \/ Tick
    \/ TimePasses
    \/ \E k \in 1..MaxRuns : IdentifyProblems(k)
    \/ \E k \in 1..Len(runs) :
          /\ runs[k].todo # <<>>
          /\ \E response \in (IF callModel THEN Responses(Head(runs[k].todo))
                                 ELSE {NoResponse}) :
             \E lesson \in { l \in Lessons : l.ok = response.ok },
                vector \in MergedVecs, newContext \in AdjustedLens :
                OptimizeWithGRPO(k, response, lesson, vector, newContext)
    \/ \E k \in 1..MaxRuns : Complete(k)

OptSpec == OptInit /\ [][OptNext]_vars


\* ------------------------------------------------------------------------
\* The experience library by itself
\* ------------------------------------------------------------------------

\* The experiences addExperience() is given: the patterns the heuristic
\* writes (`When ${type} at layer ${layer}`) and one from the model, with
\* confidences 0.3, 0.7 (the heuristic's) and 0.95.
Patterns == {<<"high_overlap", 1>>, <<"poor_context", 1>>, <<"poor_context", 2>>,
             <<"lesson", 0>>}

Confidences == {30, 70, 95}

Experiences == { Experience(p, c) : p \in Patterns, c \in Confidences }

AddExperience(exp) ==
    /\ experienceLibrary' = addExperience(experienceLibrary, exp)
    /\ UNCHANGED <<conversationCount, optimizationCount, lastOptimizationTime, runs, grpo>>
    /\ KeepOptions
    /\ UNCHANGED <<wmVars, storeVars, agentVars>>

\* saveExperiences() and, in the next process, loadExperiences().
LoadExperiences ==
    /\ experienceLibrary' = fromJSON(toJSON(experienceLibrary))
    /\ UNCHANGED <<conversationCount, optimizationCount, lastOptimizationTime, runs, grpo>>
    /\ KeepOptions
    /\ UNCHANGED <<wmVars, storeVars, agentVars>>

LibInit ==
    /\ StoreFresh
    /\ scanOrder = "oldest_first"
    /\ WMFresh
    /\ maxSize = 20
    /\ hasLTM = TRUE
    /\ AgentFresh
    /\ OptFresh
    /\ callModel \in BOOLEAN
    /\ rewardThreshold = Reward(6)

LibNext ==
    \/ \E exp \in Experiences : AddExperience(exp)
    \/ LoadExperiences

LibSpec == LibInit /\ [][LibNext]_vars

\* ------------------------------------------------------------------------
\* SandboxMemory
\* ------------------------------------------------------------------------
MaxSandboxes == 3   \* create() calls per behaviour
MaxClock == 3       \* the clock readings create() meets

\* The dataDir of the user's store: './rag_data'.
PrimaryDir == <<"cwd", "rag_data", 0>>

\* The prefixes SandboxMemory is constructed with: the default and another.
Prefixes == {"clippy-bench", "bench"}

\* path.join(os.tmpdir(), `${prefix}-${timestamp}`)
sandboxDir(prefix, timestamp) == <<"tmpdir", prefix, timestamp>>

\* new SandboxMemory(prefix).create(): the directory is made unless it is
\* there, and a store is initialised in it.
Create(prefix) ==
    /\ Len(sandboxes) < MaxSandboxes
    /\ sandboxes' = Append(sandboxes, [dir |-> sandboxDir(prefix, now), open |-> TRUE])
    /\ UNCHANGED <<callModel, rewardThreshold, conversationCount, optimizationCount,
                   lastOptimizationTime, runs, grpo, experienceLibrary, settled, loop2,
                   calls>>
    /\ UNCHANGED <<wmVars, storeVars, agentVars>>

\* cleanup() of the i-th sandbox: its store is disposed and its directory
\* removed.
Cleanup(i) ==
    /\ i \in 1..Len(sandboxes)
    /\ sandboxes[i].open
    /\ sandboxes' = [sandboxes EXCEPT ![i].open = FALSE]
    /\ UNCHANGED <<callModel, rewardThreshold, conversationCount, optimizationCount,
                   lastOptimizationTime, runs, grpo, experienceLibrary, settled, loop2,
                   calls>>
    /\ UNCHANGED <<wmVars, storeVars, agentVars>>

\* A millisecond passes.
Millisecond ==
    /\ now < MaxClock
    /\ now' = now + 1
    /\ UNCHANGED <<maxSize, items, attention, hasLTM, nextSeq, pruned, offered>>
    /\ UNCHANGED <<storeVars, agentVars, optVars>>

SandboxNext ==
    \/ \E prefix \in Prefixes : Create(prefix)
    \/ \E i \in 1..MaxSandboxes : Cleanup(i)
    \/ Millisecond

SandboxSpec == LibInit /\ [][SandboxNext]_vars

\* The agent as main.js builds it: new WorkingMemory(20, longTermMemory)
\* with the store attached.
Init ==
    /\ WMFresh
    /\ maxSize = 20
    /\ hasLTM = TRUE
    /\ StoreFresh
    /\ scanOrder = "oldest_first"
    /\ AgentFresh
    /\ OptFresh
    /\ callModel = FALSE
    /\ rewardThreshold = Reward(6)

\* The steps start() takes by itself.
Loop ==
    \/ Initialized
    \/ LoopHead
    \/ Observe
    \/ \E think \in BOOLEAN, dialectic \in BOOLEAN : OrientIdle(think, dialectic)
    \/ \E finding \in BOOLEAN : ThinkReturn(finding)
    \/ Orient
    \/ \E orid \in OridOutcomes : OrientReturn(orid)
    \/ Decide
    \/ \E outcome \in DecisionOutcomes : DecideReturn(outcome)
    \/ Act
    \/ \E outcome \in RespondOutcomes : RespondReturn(outcome)
    \/ \E outcome \in ToolOutcomes : ToolReturn(outcome)
    \/ Sleep
    \/ ErrSleep
    \/ \E late \in BOOLEAN : Wake(late)

\* The calls made from outside the loop.
Handlers ==
    \/ Start
    \/ OnUserMessage
    \/ \E serial \in BOOLEAN : OnSystemEvent(serial)
    \/ Stop

Next == Loop \/ Handlers

Spec == Init /\ [][Next]_vars

\* Every external call returns and every timer fires, and the event loop
\* runs a continuation that is ready: a step of start() that can be taken
\* is taken.
FairSpec == Spec /\ WF_vars(Loop)

\* ------------------------------------------------------------------------
\* start() called again
\* ------------------------------------------------------------------------
\* start() has no guard: it sets isRunning, awaits initialize() and enters
\* its own while loop, whatever an earlier call is doing.  pc follows the
\* first call, loop2 a call made while the first has not returned: "idle"
\* before it, "init" at `await this.initialize()`, "head" at the test of its
\* while, "cycling" once it has entered a cycle, "returned" if the test
\* failed.  The behaviours are followed up to the second loop's first cycle.

\* The first call's loop is inside a cycle.
InCycle == pc \in {"observe", "orient", "orient_llm", "think_llm", "decide", "decide_llm",
                   "act", "act_io", "sleep", "errsleep", "sleeping"}

\* start() after the first call has returned: the one loop there is.
Restart ==
    /\ pc = "returned"
    /\ loop2 = "idle"
    /\ isRunning' = TRUE
    /\ pc' = "init"
    /\ UNCHANGED <<cycleCount, eventQueue, observations, orientation, decision,
                   lastThinkTime, delay, ongoing, completed, emitted, nextEvent,
                   dequeued, phases, actPending, stopCycle, now>>
    /\ KeepWM /\ KeepStore

\* The frame of the second call's steps.
KeepButLoop2 ==
    /\ UNCHANGED <<pc, cycleCount, eventQueue, observations, orientation, decision,
                   lastThinkTime, delay, ongoing, completed, emitted, nextEvent,
                   dequeued, phases, actPending, stopCycle, now>>
    /\ UNCHANGED <<callModel, rewardThreshold, conversationCount, optimizationCount,
                   lastOptimizationTime, runs, grpo, experienceLibrary, settled,
                   sandboxes, calls>>
    /\ KeepWM
    /\ UNCHANGED storeVars

\* start() while the first call has not returned.
StartAgain ==
    /\ pc \notin {"idle", "returned"}
    /\ loop2 = "idle"
    /\ isRunning' = TRUE
    /\ loop2' = "init"
    /\ KeepButLoop2

\* initialize() of the second call has resolved.
Initialized2 ==
    /\ loop2 = "init"
    /\ loop2' = "head"
    /\ UNCHANGED isRunning
    /\ KeepButLoop2

\* The second call's test of its while.
LoopHead2 ==
    /\ loop2 = "head"
    /\ loop2' = IF loopCondition(isRunning) THEN "cycling" ELSE "returned"
    /\ UNCHANGED isRunning
    /\ KeepButLoop2

\* The second call has not entered a cycle.
Unentered == loop2 # "cycling"

RestartNext ==
    \/ Unentered /\ Loop
    \/ Unentered /\ Handlers
    \/ Restart
    \/ StartAgain
    \/ Initialized2
    \/ LoopHead2

RestartSpec == Init /\ [][RestartNext]_vars

\* ------------------------------------------------------------------------
\* The loop with a working memory that overflows
\* ------------------------------------------------------------------------

\* cleanup() calls saveToLongTermMemory(item) and does not await it: the
\* calls started and not ended.
commitsInFlight == Len(offered) - settled

\* A saveToLongTermMemory() call started by cleanup() comes to its end: the
\* store is searched, the engine asked and the node added, or a call fails.
CommitReturn(vector, relationship, failure) ==
    /\ commitsInFlight > 0
    /\ settled' = settled + 1
    /\ HasRoom
    /\ LET saved == saveToLongTermMemory(Store, TRUE, vector, relationship, failure,
                                         NodeIds[nextId + 1])
       IN  /\ Fits(saved.st.t)
           /\ Commit(saved, IF failure # "search"
                            THEN traverseSearch(Store, vector, 2).st.t ELSE table)
    /\ UNCHANGED <<callModel, rewardThreshold, conversationCount, optimizationCount,
                   lastOptimizationTime, runs, grpo, experienceLibrary, sandboxes, loop2,
                   calls>>
    /\ UNCHANGED <<wmVars, agentVars>>

\* The agent with a working memory of two items, which stands for the 20 of
\* new WorkingMemory(20, longTermMemory): the third item added evicts one.
EvictInit ==
    /\ WMFresh
    /\ maxSize = 2
    /\ hasLTM = TRUE
    /\ StoreFresh
    /\ scanOrder = "oldest_first"
    /\ AgentFresh
    /\ OptFresh
    /\ callModel = FALSE
    /\ rewardThreshold = Reward(6)

EvictNext ==
    \/ Loop
    \/ Handlers
    \/ \E relationship \in {"novel", "redundant"} :
            CommitReturn(<<1, 0>>, relationship, "none")

EvictSpec == EvictInit /\ [][EvictNext]_vars

\* The optimizer over the memories the agent commits: saveToLongTermMemory()
\* adds them at layer 2 without a parent, so that _detectOverlaps() takes them
\* for siblings.  The model, where one is given, answers a group with three
\* merges of the problem's nodes or with nothing usable.
MergeResponses(problem) ==
    {NoResponse,
     [ok |-> TRUE, ops |-> <<Op("merge", problem.nodes), Op("merge", problem.nodes),
                             Op("merge", problem.nodes)>>]}

MergeInit ==
    /\ StoreFresh
    /\ scanOrder = "oldest_first"
    /\ WMFresh
    /\ maxSize = 20
    /\ hasLTM = TRUE
    /\ AgentFresh
    /\ OptFresh
    /\ callModel \in BOOLEAN
    /\ rewardThreshold = Reward(6)

MergeNext ==
    \/ \E vector \in EmbedVecs : SaveToLongTermMemory(FALSE, vector, "novel", "none")
    \/ Tick
    \/ TimePasses
    \/ \E k \in 1..MaxRuns : IdentifyProblems(k)
    \/ \E k \in 1..Len(runs) :
          /\ runs[k].todo # <<>>
          /\ \E response \in (IF callModel THEN MergeResponses(Head(runs[k].todo))
                                 ELSE {NoResponse}) :
             \E lesson \in { l \in Lessons : l.ok = response.ok },
                vector \in MergedVecs, newContext \in AdjustedLens :
                OptimizeWithGRPOWithin(MaxIds + MergedIds, k, response, lesson, vector,
                                       newContext)
    \/ \E k \in 1..MaxRuns : Complete(k)

MergeSpec == MergeInit /\ [][MergeNext]_vars

\* ------------------------------------------------------------------------
\* addNode() calls made at the same time
\* ------------------------------------------------------------------------
\* addNode() is async: between its awaits another call runs.  A call is
\* followed through the stretches its awaits cut it into: the validation up
\* to `await this.embedder.getEmbedding(content)`; the insertion
\* `await this.table.add([node])`; addChildToParent() up to its
\* `await this.table.add([{...parent, children_ids}])`; and the two
\* cacheNode() calls that end it.  Two calls are in progress when tick()
\* has started runOptimization() without awaiting it and the agent commits
\* an item, or when cleanup() commits two evicted items.
\* addNode() calls in progress at once: each takes an id.
MaxCalls == MaxIds

\* A call in progress: its place, its arguments, the id it generated, the
\* row it made and the parent row addChildToParent() wrote.
Call(at, layer, parentId, vector, context, id, node, updated) ==
    [pc |-> at, layer |-> layer, parentId |-> parentId, vector |-> vector,
     context |-> context, id |-> id, node |-> node, updated |-> updated]

KeepButCalls ==
    /\ UNCHANGED <<callModel, rewardThreshold, conversationCount, optimizationCount,
                   lastOptimizationTime, runs, grpo, experienceLibrary, settled,
                   sandboxes, loop2>>
    /\ UNCHANGED <<wmVars, agentVars>>
    /\ UNCHANGED <<scanOrder, lastAdd>>

\* addNode() is called with a parent and runs to the await of the
\* embedding: the parent is read and checked, the id generated.
Validate(layer, parentId, vector, context) ==
    /\ Len(calls) < MaxCalls
    /\ HasRoom
    /\ parentId # NullId
    /\ LET parent == getNode(Store, parentId)
           verdict == IF ~layerValid(layer) THEN "layer_out_of_range"
                      ELSE validateParent(parent, layer)
       IN  /\ nodeCache' = IF layerValid(layer) THEN afterGetNode(Store, parentId).c
                           ELSE nodeCache
           /\ IF verdict = "ok"
              THEN /\ calls' = Append(calls, Call("embedding", layer, parentId, vector,
                                                  context, NodeIds[nextId + 1], NoRow, NoRow))
                   /\ nextId' = nextId + 1
              ELSE /\ calls' = Append(calls, Call("threw", layer, parentId, vector,
                                                  context, NullId, NoRow, NoRow))
                   /\ UNCHANGED nextId
    /\ UNCHANGED table
    /\ KeepButCalls

\* The embedding has come back: the node is built and added to the table.
Insert(k) ==
    /\ k \in 1..Len(calls)
    /\ calls[k].pc = "embedding"
    /\ LET call == calls[k]
           node == Row(call.id, call.layer, call.vector, truncateText(call.context, 256),
                       call.parentId, <<>>, 1)
       IN  /\ Fits(Append(table, node))
           /\ table' = Append(table, node)
           /\ calls' = [calls EXCEPT ![k] = [@ EXCEPT !.pc = "inserted", !.node = node]]
    /\ UNCHANGED <<nodeCache, nextId>>
    /\ KeepButCalls

\* The row is in the table: addChildToParent() reads the parent and adds
\* the parent's row with the child appended.
WriteParent(k) ==
    /\ k \in 1..Len(calls)
    /\ calls[k].pc = "inserted"
    /\ LET call == calls[k]
           parent == getNode(Store, call.parentId)
           st1 == afterGetNode(Store, call.parentId)
       IN  IF parent # NoRow /\ ~InSeq(call.id, parent.children_ids)
           THEN LET updated == [parent EXCEPT !.children_ids = Append(@, call.id)]
                IN  /\ Fits(Append(table, updated))
                    /\ table' = Append(table, updated)
                    /\ nodeCache' = st1.c
                    /\ calls' = [calls EXCEPT ![k] = [@ EXCEPT !.pc = "written",
                                                               !.updated = updated]]
           ELSE /\ nodeCache' = st1.c
                /\ calls' = [calls EXCEPT ![k] = [@ EXCEPT !.pc = "caching"]]
                /\ UNCHANGED table
    /\ UNCHANGED nextId
    /\ KeepButCalls

\* The parent's row is in the table: the parent written and the node are
\* cached, and addNode() returns.
Finish(k) ==
    /\ k \in 1..Len(calls)
    /\ calls[k].pc \in {"written", "caching"}
    /\ LET call == calls[k]
           c1 == IF call.pc = "written" THEN cacheNode(nodeCache, call.updated)
                 ELSE nodeCache
       IN  nodeCache' = cacheNode(c1, call.node)
    /\ calls' = [calls EXCEPT ![k] = [@ EXCEPT !.pc = "done"]]
    /\ UNCHANGED <<table, nextId>>
    /\ KeepButCalls

RaceNext ==
    \/ \E layer \in 0..maxLayers, parentId \in KnownIds \cup {MissingId},
          vector \in EmbedVecs, context \in ContextLens :
            Validate(layer, parentId, vector, context)
    \/ \E k \in 1..MaxCalls : Insert(k)
    \/ \E k \in 1..MaxCalls : WriteParent(k)
    \/ \E k \in 1..MaxCalls : Finish(k)

RaceSpec == StoreInit /\ [][RaceNext]_vars

\* ------------------------------------------------------------------------
\* Claims about WorkingMemory (under WMSpec)
\* ------------------------------------------------------------------------

\* C1: each time add() returns, the buffer holds at most maxSize items, for
\* every maxSize >= 1 the buffer is built with.
C1_SizeBound == Len(items) <= maxSize

\* An add() has overflowed the buffer: items were cut and the buffer is full.
C1_Witness == pruned # <<>> /\ Len(items) = maxSize /\ nextSeq > maxSize

\* C2: every item the latest add() evicted has a blended score
\* (0.7 x importance + 0.3 x recency) no greater than the score of every item
\* that stays in the buffer.
C2_EvictLowest ==
    \A i \in 1..Len(pruned), j \in 1..Len(items) :
        Score(pruned[i], now) <= Score(items[j], now)

\* An eviction that recency decided: the evicted item is the more important
\* one, and older.
C2_Witness ==
    \E i \in 1..Len(pruned), j \in 1..Len(items) :
        /\ pruned[i].importance > items[j].importance
        /\ pruned[i].timestamp < items[j].timestamp

\* The retention rule as the specification words it.
Retained(it) ==
    \/ it.importance > 80
    \/ it.accessCount > 3
    \/ (it.type = "agent_thinking" /\ it.importance > 60)

\* C16: with a long-term store attached, an add() offers to the store
\* exactly those of the items it evicts whose importance is above 0.8, or
\* whose accessCount is above 3, or that are agent_thinking items of
\* importance above 0.6; nothing else is offered, and nothing at all
\* without a store.
C16_OfferedIffRetained ==
    [][nextSeq' # nextSeq =>
          offered' = offered \o (IF hasLTM THEN SelectSeq(pruned', Retained) ELSE <<>>)]_vars

\* The access count decided: an evicted item read more than 3 times, of
\* importance no more than 0.8 and no agent_thinking item, was offered.
C16_Witness ==
    /\ hasLTM
    /\ \E i \in 1..Len(pruned) :
          /\ pruned[i].accessCount > 3
          /\ pruned[i].importance <= 80
          /\ pruned[i].type # "agent_thinking"
          /\ \E j \in 1..Len(offered) : offered[j] = pruned[i]

\* C17 as stated: once the inserts have overflowed the buffer it holds
\* exactly maxSize items, and an evicted item is offered to the store only
\* if its importance is above 0.8 or its accessCount above 3.
C17_OfferedOnlyImportantOrRead ==
    /\ nextSeq > maxSize => Len(items) = maxSize
    /\ \A j \in 1..Len(offered) :
          offered[j].importance > 80 \/ offered[j].accessCount > 3

\* C17 as amended: once the inserts have overflowed the buffer it holds
\* exactly maxSize items, and an evicted item is offered to the store only
\* if its importance is above 0.8, or its accessCount above 3, or it is an
\* agent_thinking item of importance above 0.6.
C17_OverflowOffersRetained ==
    /\ nextSeq > maxSize => Len(items) = maxSize
    /\ \A j \in 1..Len(offered) : Retained(offered[j])

\* After an overflow an agent_thinking item of importance 0.8, never read,
\* was offered.
C17_Witness ==
    /\ nextSeq > maxSize
    /\ Len(items) = maxSize
    /\ \E j \in 1..Len(offered) :
          /\ offered[j].type = "agent_thinking"
          /\ offered[j].importance <= 80
          /\ offered[j].accessCount = 0

\* C28: the importance add() gives an item lies between 0 and 1, and
\* shouldRemember is monotone in accessCount: an item that is to be
\* remembered is still to be remembered with any larger access count.
C28_ImportanceInRange ==
    \A i \in 1..Len(items \o pruned) :
        LET it == (items \o pruned)[i]
        IN  /\ it.importance >= 0 /\ it.importance <= 100
            /\ \A more \in it.accessCount..(MaxReads + 2) :
                  shouldRemember(it) => shouldRemember([it EXCEPT !.accessCount = more])

\* A message that needs a response was added (0.5 + 0.4 + 0.2, cut to 1.0),
\* and an item of importance 0.5 was evicted and is to be remembered by its
\* access count alone.
C28_Witness ==
    /\ \E i \in 1..Len(items) : items[i].importance = 100
    /\ \E j \in 1..Len(pruned) :
          /\ pruned[j].importance = 50
          /\ pruned[j].accessCount = 4
          /\ shouldRemember(pruned[j])
          /\ ~shouldRemember([pruned[j] EXCEPT !.accessCount = 3])

\* ------------------------------------------------------------------------
\* Claims about the loop (under Spec and FairSpec)
\* ------------------------------------------------------------------------
Ids(events) == [i \in 1..Len(events) |-> events[i].id]

\* C3: every event enqueued by onUserMessage or onSystemEvent is taken by
\* exactly one observe(): none is taken twice, the events taken and the
\* events waiting are together the events enqueued, in the order enqueued
\* (so events of one priority leave first in, first out), and an event
\* given to a running agent is taken in the end unless the agent is stopped.
C3_Delivery ==
    Ids(dequeued) \o Ids(eventQueue) = [i \in 1..nextEvent |-> i]

C3_FifoPerPriority ==
    \A i \in 1..Len(dequeued), j \in 1..Len(dequeued) :
        (i < j /\ dequeued[i].priority = dequeued[j].priority)
            => dequeued[i].id < dequeued[j].id

C3_ExactlyOnceFifo ==
    /\ [](C3_Delivery /\ C3_FifoPerPriority)
    /\ \A e \in 1..MaxEvents :
          (isRunning /\ nextEvent >= e)
              ~> (~isRunning \/ \E i \in 1..Len(dequeued) : dequeued[i].id = e)

\* Two events of one priority have been taken, the second of them enqueued
\* while a cycle was under way.
C3_Witness ==
    /\ Len(dequeued) = 2
    /\ dequeued[1].priority = dequeued[2].priority
    /\ dequeued[2].midCycle

PhaseOrder == <<"observe", "orient", "decide", "act", "sleep">>

IsPrefix(s, t) == Len(s) <= Len(t) /\ \A i \in 1..Len(s) : s[i] = t[i]

\* The phases of the cycle, the catch block apart.
Entered == SelectSeq(phases, LAMBDA ph : ph # "error")

\* C4: within a cycle the phases are entered in the order observe, orient,
\* decide, act, sleep; while act() has not returned the loop stands at its
\* call, and the loop is back at its head only with the cycle's sleep (or
\* the catch block) entered: no phase of the next cycle starts earlier,
\* whatever is enqueued meanwhile.
C4_PhasesInOrder ==
    /\ IsPrefix(Entered, PhaseOrder)
    /\ actPending => pc = "act_io"
    /\ pc = "observe" => phases = <<>>
    /\ (pc \in {"sleeping", "head"} /\ cycleCount > 0) =>
            (phases # <<>> /\ phases[Len(phases)] \in {"sleep", "error"})

\* A cycle ran all five phases, act() having waited for its call, with a
\* high-priority event enqueued in its course and still in the queue.
C4_Witness ==
    /\ phases = PhaseOrder
    /\ pc = "sleeping"
    /\ decision \in {"respond_to_user", "use_tool"}
    /\ \E i \in 1..Len(eventQueue) :
          eventQueue[i].priority = "high" /\ eventQueue[i].midCycle

\* C5: an error thrown by a phase is caught by the loop: nothing leaves
\* start(), isRunning is not changed by it, and after the error sleep a
\* further cycle begins unless stop() was called.
C5_ErrorsCaught ==
    /\ [](pc # "crashed")
    /\ [][(pc # "errsleep" /\ pc' = "errsleep") => isRunning' = isRunning]_vars
    /\ (pc = "errsleep") ~> (pc = "observe" \/ ~isRunning)

\* A cycle began after the error sleep (the only one of 1000 ms), the agent
\* still running.
C5_Witness == delay = 1000 /\ cycleCount = 2 /\ pc = "observe" /\ isRunning

\* C6: after stop() no new cycle starts, the cycle under way goes on to its
\* end, and start() returns.
C6_StopEndsLoop ==
    /\ [](stopCycle # -1 => (~isRunning /\ cycleCount = stopCycle))
    /\ (stopCycle # -1) ~> (pc = "returned")

\* stop() was called in the course of a cycle, no later than while act()
\* waits for its call: the phase is still in flight with isRunning false.
C6_Witness ==
    /\ stopCycle = cycleCount
    /\ ~isRunning
    /\ actPending
    /\ pc = "act_io"

\* C19: when respond_to_user fails in composition (the completion call
\* throws, or what it gives holds no response), no 'message' is emitted and
\* the loop goes on to its sleep, the response not being tried again.
C19_FailedResponseEmitsNothing ==
    [][\A outcome \in {"failed", "sent_without_content"} :
          RespondReturn(outcome) => (emitted' = emitted /\ pc' = "sleep")]_vars

\* The actions the switch of act() has a case for.
Dispatched == {"respond_to_user", "use_tool", "use_tool_unavailable", "internal_processing"}

\* C20: the act phase of a cycle whose decision act() dispatches adds
\* exactly one item to the working memory, an agent_action item.
C20_ActionRecorded ==
    [][(pc \in {"act", "act_io"} /\ pc' = "sleep" /\ decision \in Dispatched) =>
          /\ nextSeq' = nextSeq + 1
          /\ \E i \in 1..Len(items' \o pruned') :
                /\ (items' \o pruned')[i].seq = nextSeq'
                /\ (items' \o pruned')[i].type = "agent_action"]_vars

\* A cycle that observed nothing: observe() found the queue empty, the last
\* thought less than 30 s old and no primary focus, and the cycle is between
\* its orient phase and its sleep.
InIdleCycle ==
    /\ observations = <<>>
    /\ pc \in {"orient", "think_llm", "decide", "act"}

\* C23: in an agent configured with thinking probability 0, a cycle that
\* starts with an empty event queue and observes nothing ends in the wait
\* decision and leaves the items of WorkingMemory, their access counts and
\* the attention record as they were.
C23_IdleCycleWaits ==
    [][InIdleCycle =>
          /\ items' = items
          /\ attention' = attention
          /\ (pc' = "sleep" => decision' = "wait")]_vars

Suspended == {"init", "orient_llm", "think_llm", "decide_llm", "act_io", "sleeping"}

\* The places between two phases: the phase before has returned.
BetweenPhases == {"head", "observe", "orient", "decide", "act", "sleep", "errsleep",
                  "sleeping", "returned"}

\* C30: at most one suspendable step started by the agent is in flight: a
\* commit to the long-term store started by an eviction is over before the
\* loop waits for its next call, and so before the phase that caused it
\* has returned.
C30_OneStepInFlight ==
    /\ commitsInFlight + (IF pc \in Suspended THEN 1 ELSE 0) <= 1
    /\ commitsInFlight > 0 => pc \notin BetweenPhases

\* ------------------------------------------------------------------------
\* Claims about the long-term store (under StoreSpec)
\* ------------------------------------------------------------------------
\* A node is read as the row added last under its id.
Node(id) == Latest(table, id)

\* C7: addNode() fails, adds no row and changes no children list whenever the
\* layer is outside 0..maxLayers-1, or a parentId is given and the parent
\* does not exist, is not at layer-1 or already has maxChildren children; and
\* after a successful insertion under a parent, the parent has at most
\* maxChildren children.
C7_AddNodeValidates ==
    lastAdd.called =>
        /\ lastAdd.mustFail => (~lastAdd.ok /\ lastAdd.rowsAdded = 0)
        /\ (lastAdd.ok /\ lastAdd.parentId # NullId) =>
                Len(Node(lastAdd.parentId).children_ids) <= maxChildren

\* C8: every node other than the root has a parentId that is not null and
\* names an existing node exactly one layer above it.
C8_ParentOneLayerUp ==
    \A id \in KnownIds \ {RootId} :
        /\ Node(id).parent_id # NullId
        /\ HasRow(table, Node(id).parent_id)
        /\ Node(Node(id).parent_id).layer = Node(id).layer - 1

\* C9: a parent lists a child exactly when the child names that parent.
C9_ChildrenMirrorParents ==
    \A p \in KnownIds, c \in KnownIds :
        InSeq(c, Node(p).children_ids) <=> (Node(c).parent_id = p)

\* C10: the table holds at most one row per node id.
C10_OneRowPerId ==
    \A i \in 1..Len(table), j \in 1..Len(table) :
        table[i].id = table[j].id => i = j

\* C11: for every state of the store, every query and every maxDepth,
\* traverseSearch(query, maxDepth) returns at most maxDepth results, and
\* the results come from the layers 0, 1, ... up to the last layer searched
\* with a match, none from a layer after one that gave no match.
C11_TraverseBounded ==
    \A q \in EmbedVecs, maxDepth \in SearchDepths :
        LET results == traverseSearch(Store, q, maxDepth).results
        IN  /\ Len(results) <= maxDepth
            /\ \A i \in 1..Len(results) :
                  \A layer \in 0..results[i].layer :
                      \E j \in 1..Len(results) : results[j].layer = layer

\* The lists of targets a delete operation is given: one or two ids, known
\* or not.
DeleteLists ==
    LET ids == KnownIds \cup {MissingId}
    IN  { <<a>> : a \in ids } \cup { <<a, b>> : a \in ids, b \in ids }

\* C12: a delete the optimizer executes never removes the root and never
\* removes a node whose children list is not empty: such targets are passed
\* over and the targets after them are still handled.
C12_DeleteSparesRootAndParents ==
    \A nodeIds \in DeleteLists :
        \A i \in 1..Len(deleteTargets(Store, nodeIds)) :
            LET id == deleteTargets(Store, nodeIds)[i]
            IN  id # RootId /\ Len(Node(id).children_ids) = 0

\* A call of the commit fails: addNode(), or with the dialectic engine
\* attached traverseSearch(), or mergeCheck() once related nodes were found.
CommitFails(engine, vector, failure) ==
    \/ failure = "add"
    \/ engine /\ failure = "search"
    \/ engine /\ failure = "check" /\ Len(traverseSearch(Store, vector, 2).results) > 0

\* C18: when a store call or a dialectic engine call fails while an evicted
\* item is committed, the item is dropped: addNode() does not return a node
\* and the table gains no row for the item.
C18_FailedCommitDropsItem ==
    HasRoom =>
        \A engine \in BOOLEAN, vector \in EmbedVecs, relationship \in Relationships,
           failure \in Failures :
            CommitFails(engine, vector, failure) =>
                LET saved == saveToLongTermMemory(Store, engine, vector, relationship,
                                                  failure, NodeIds[nextId + 1])
                IN  /\ ~saved.add.ok
                    /\ ~HasRow(saved.st.t, NodeIds[nextId + 1])

\* The store of the scenario: createTable(), then a child of the root at
\* layer 1 and a child of that child at layer 2, and nothing else.
ChainOfThree ==
    /\ nextId = 2
    /\ Len(table) = 5
    /\ Node(NodeIds[1]).layer = 1 /\ Node(NodeIds[1]).parent_id = RootId
    /\ Node(NodeIds[2]).layer = 2 /\ Node(NodeIds[2]).parent_id = NodeIds[1]

\* The layers of a result list, in order.
LayersOf(results) == [i \in 1..Len(results) |-> results[i].layer]

\* C21: on a fresh store holding the root, one child at layer 1 and one
\* grandchild at layer 2, traverseSearch(query, 3) returns exactly 3
\* results, of layers 0, 1, 2 in this order, on the first call and on the
\* call after it.
C21_ChainTraversal ==
    ChainOfThree =>
        \A q \in EmbedVecs :
            LET first == traverseSearch(Store, q, 3)
                second == traverseSearch(first.st, q, 3)
            IN  /\ LayersOf(first.results) = <<0, 1, 2>>
                /\ LayersOf(second.results) = <<0, 1, 2>>

\* ------------------------------------------------------------------------
\* Claims about the optimizer (under OptSpec)
\* ------------------------------------------------------------------------

\* C13: every merge operation of a candidate group, whether the model
\* proposed the group or the heuristic made it, has at least 2 target nodes.
C13_MergeHasTwoTargets ==
    \A i \in 1..Len(grpo.candidates) :
        grpo.candidates[i].operationType = "merge" =>
            Len(grpo.candidates[i].targetNodes) >= 2

\* A step that is a call of _optimizeWithGRPO(): a run that has identified
\* its problems moves on or ends, and no run completes (Complete) or is
\* started (Tick).
GRPOStep ==
    /\ conversationCount' = conversationCount
    /\ optimizationCount' = optimizationCount
    /\ \E k \in 1..Len(runs) :
          runs[k].identified /\ (k > Len(runs') \/ runs'[k] # runs[k])

\* C14: for a problem the optimizer executes at most one operation, a
\* candidate whose reward no other candidate's exceeds and only when that
\* reward is strictly above rewardThreshold; when it executes none, the
\* store is as it was.
C14_BestAboveThresholdOnly ==
    [][GRPOStep =>
          /\ Len(grpo'.executed) <= 1
          /\ grpo'.executed # <<>> =>
                \E i \in 1..Len(grpo'.candidates) :
                    /\ grpo'.executed[1] = grpo'.candidates[i]
                    /\ grpo'.rewards[i] > rewardThreshold
                    /\ \A j \in 1..Len(grpo'.candidates) :
                          grpo'.rewards[j] <= grpo'.rewards[i]
          /\ grpo'.executed = <<>> => (table' = table /\ nodeCache' = nodeCache)]_vars

\* A candidate other than the first, of higher reward than the first, was
\* executed.
C14_Witness ==
    /\ Len(grpo.executed) = 1
    /\ \E i \in 2..Len(grpo.candidates) :
          /\ grpo.executed[1] = grpo.candidates[i]
          /\ grpo.rewards[i] > grpo.rewards[1]
          /\ grpo.rewards[i] > rewardThreshold

\* C15: the runs tick() starts are serialized: at no time are two
\* runOptimization() calls in progress.
C15_RunsSerialized == Len(runs) <= 1

\* ------------------------------------------------------------------------
\* Claims about merges and advantages (under MergeSpec)
\* ------------------------------------------------------------------------

\* The ids of the nodes without children, by the newest row of each.
LeafIds(t) ==
    { id \in { t[i].id : i \in 1..Len(t) } : Latest(t, id).children_ids = <<>> }

\* The children either of the two nodes lists.
ChildrenOfBoth(t, nodes) ==
    { c \in { t[i].id : i \in 1..Len(t) } :
        \E n \in 1..Len(nodes) : InSeq(c, Latest(t, nodes[n]).children_ids) }

\* A call of _optimizeWithGRPO() without a model for two distinct siblings
\* whose cosine similarity is 0.9 to one decimal.
HeuristicOverlapStep ==
    /\ GRPOStep
    /\ ~callModel
    /\ rewardThreshold = Reward(6)
    /\ grpo'.problem.type = "high_overlap"
    /\ grpo'.problem.overlapRatio \in 850..949
    /\ grpo'.problem.nodes[1] # grpo'.problem.nodes[2]

\* C22: two siblings whose vectors have a cosine similarity of about 0.9 are
\* flagged as high_overlap and, without a model and with rewardThreshold
\* 0.6, the optimizer executes their merge; after it the store has one leaf
\* fewer, and every child of either node is listed as a child of the merged
\* node.
C22_MergeRemovesALeaf ==
    [][HeuristicOverlapStep =>
          /\ grpo'.executed = <<Op("merge", grpo'.problem.nodes)>>
          /\ Cardinality(LeafIds(table')) = Cardinality(LeafIds(table)) - 1
          /\ \A c \in ChildrenOfBoth(table, grpo'.problem.nodes) :
                InSeq(c, Latest(table', NodeIds[nextId + 1]).children_ids)]_vars

\* Whether all the rewards of the group last evaluated are equal.
EqualRewards ==
    /\ grpo.rewards # <<>>
    /\ \A i \in 1..Len(grpo.rewards) : grpo.rewards[i] = grpo.rewards[1]

\* C27: for a group of one or more candidates whose rewards are all equal,
\* every group-relative advantage is 0 and no experience is extracted.
C27_EqualRewardsNoAdvantage ==
    EqualRewards =>
        /\ \A i \in 1..Len(grpo.advantages.num) : grpo.advantages.num[i] = 0
        /\ grpo.extracted = <<>>

\* ------------------------------------------------------------------------
\* Claims about the experience library (under LibSpec) and the sandboxes
\* (under SandboxSpec)
\* ------------------------------------------------------------------------

\* The patterns a list of experiences holds.
PatternsOf(experiences) == { experiences[i].pattern : i \in 1..Len(experiences) }

EntriesOf(experiences) == { experiences[i] : i \in 1..Len(experiences) }

\* One entry of old has its confidence raised by 0.1, to 1.0 at most, and
\* nothing else differs.
Boosted(old, new) ==
    /\ Len(new) = Len(old)
    /\ \E k \in 1..Len(old) :
          /\ new[k].pattern = old[k].pattern
          /\ new[k].confidence = IF old[k].confidence + 10 > 100 THEN 100
                                 ELSE old[k].confidence + 10
          /\ \A i \in 1..Len(old) : i # k => new[i] = old[i]

\* An experience with a new pattern is added at the end.
Appended(old, new) ==
    /\ Len(new) = Len(old) + 1
    /\ SubSeq(new, 1, Len(old)) = old
    /\ new[Len(new)].pattern \notin PatternsOf(old)

\* The library was full and an experience e with a new pattern came: of
\* the old entries and e, one of the lowest confidence is gone.
Overflowed(old, new) ==
    /\ Len(old) = maxExperiences
    /\ \E e \in Experiences :
          /\ e.pattern \notin PatternsOf(old)
          /\ \E dropped \in EntriesOf(old) \cup {e} :
                /\ EntriesOf(new) = (EntriesOf(old) \cup {e}) \ {dropped}
                /\ \A kept \in EntriesOf(new) : dropped.confidence <= kept.confidence

\* C25: after every addExperience() the library holds at most
\* maxExperiences entries; a call with a pattern the library holds adds no
\* entry and raises that entry's confidence by 0.1, to 1.0 at most; a call
\* with a new pattern adds the entry, and on overflow the entry dropped is
\* one of the lowest confidence.
C25_LibraryCapped ==
    [][LET old == experienceLibrary.experiences
           new == experienceLibrary'.experiences
       IN  /\ Len(new) <= maxExperiences
           /\ Cardinality(PatternsOf(new)) = Len(new)
           /\ new # old => Boosted(old, new) \/ Appended(old, new) \/ Overflowed(old, new)
           /\ \A i \in 1..Len(new) : new[i].confidence <= 100]_vars

\* The library is full, one entry was raised to the cap and another was
\* raised from 0.3.
C25_Witness ==
    /\ Len(experienceLibrary.experiences) = maxExperiences
    /\ \E i, j \in 1..Len(experienceLibrary.experiences) :
          /\ experienceLibrary.experiences[i].confidence = 100
          /\ experienceLibrary.experiences[j].confidence = 40

\* C26: the directory of every sandbox created differs from the primary
\* store's directory and from the directory of every other sandbox created
\* in the process.
C26_SandboxDirsDiffer ==
    \A i \in 1..Len(sandboxes) :
        /\ sandboxes[i].dir # PrimaryDir
        /\ \A j \in 1..Len(sandboxes) : i # j => sandboxes[i].dir # sandboxes[j].dir

MergeInsertionFailed ==
    /\ GRPOStep
    /\ Len(grpo'.executed) = 1
    /\ grpo'.executed[1].operationType = "merge"
    /\ Len(grpo'.executed[1].targetNodes) >= 2
    /\ HasRow(table, grpo'.executed[1].targetNodes[1])
    /\ HasRow(table, grpo'.executed[1].targetNodes[2])
    /\ lastAdd'.called /\ lastAdd'.mustFail /\ ~lastAdd'.ok

\* C31: when the insertion a merge makes fails validation, only the
\* insertion is abandoned: the run stays in progress, to go on to its
\* remaining problems and epochs and to complete.
C31_FailedInsertionKeepsRun ==
    [][MergeInsertionFailed => Len(runs') = Len(runs)]_vars

\* A call of _optimizeWithGRPO() that executed a merge whose node was added,
\* or an adjust_context that wrote a row.
RepairStep ==
    /\ GRPOStep
    /\ Len(grpo'.executed) = 1
    /\ \/ grpo'.executed[1].operationType = "merge" /\ nextId' = nextId + 1
       \/ grpo'.executed[1].operationType = "adjust_context" /\ table' # table

\* Whether a detection pass over table t reports a problem of the type and
\* for the nodes of problem.
Reports(t, problem) ==
    \E i \in 1..Len(identifyProblems(t)) :
        /\ identifyProblems(t)[i].type = problem.type
        /\ identifyProblems(t)[i].nodes = problem.nodes

\* C36: after the optimizer has executed a merge or an adjust_context for a
\* problem, the next detection pass over the store no longer reports that
\* problem for the same nodes.
C36_RepairSettlesProblem ==
    [][RepairStep => ~Reports(table', grpo'.problem)]_vars

\* C39: every high_overlap problem names two different node ids, and no
\* merge that was executed has one node as both of its targets, also once
\* layer searches or child insertions have written a node's row again.
C39_OverlapNamesTwoNodes ==
    /\ \A i \in 1..Len(detectOverlaps(table)) :
           detectOverlaps(table)[i].nodes[1] # detectOverlaps(table)[i].nodes[2]
    /\ \A i \in 1..Len(grpo.executed) :
           (grpo.executed[i].operationType = "merge" /\ Len(grpo.executed[i].targetNodes) >= 2)
               => grpo.executed[i].targetNodes[1] # grpo.executed[i].targetNodes[2]

\* ------------------------------------------------------------------------
\* Claims about the agent's decisions, its situation model and its focus
\* (under Spec), and about start() called again (under RestartSpec)
\* ------------------------------------------------------------------------

\* act() is about to run on what decide() returned for a text parseJSON()
\* could not parse.
ParseFailed == pc = "act" /\ decision = "undefined"

\* C32: when the decision text cannot be parsed, the cycle goes on as for
\* the wait decision: act() records no action, the lists of the situation
\* model are left as they were.
C32_ParseFailureWaits ==
    [][ParseFailed => (ongoing' = ongoing /\ completed' = completed)]_vars

\* C35: the lists of the situation model stay bounded whatever the number
\* of cycles: completed holds at most 10 records, and ongoing, the loop
\* awaiting each act() before the next cycle, at most the one action in
\* progress.  (planned is never written.)
C35_ActionListsBounded ==
    /\ Len(completed) <= 10
    /\ Len(ongoing) <= 1

\* C37: whatever start() and stop() calls are made, at most one loop is
\* inside a cycle: the second call does not enter a cycle while the first
\* call's loop is in one.
C37_OneLoop == ~(loop2 = "cycling" /\ InCycle)

\* C38: once add() has set the primary focus (importance > 0.8) it stays
\* set; from then on observe() returns at least one observation, and
\* orient() never takes its no-observation branch: it leaves with an item
\* added to working memory.
Focused == attention.primary # NoItem
C38_FocusKeepsObserving ==
    [][Focused =>
         /\ attention'.primary # NoItem
         /\ (pc = "observe" /\ pc' # pc) => observations' # <<>>
         /\ (pc = "orient" /\ pc' # pc) => (observations # <<>> /\ nextSeq' = nextSeq + 1)]_vars
\* A cycle that nothing but the focus has set going: the queue was empty
\* and the last thought recent, and orient() has added the observation.
C38_Witness ==
    /\ Focused
    /\ observations = <<AttentionObservation>>
    /\ pc \in {"orient_llm", "decide"}
    /\ \E i \in 1..Len(items) : items[i].type = "attention"

\* ------------------------------------------------------------------------
\* Claims about access counts, deletion and concurrent insertions
\* (under StoreSpec and RaceSpec)
\* ------------------------------------------------------------------------

\* C33: a searchInLayer() call raises the access count of every node it
\* returns by one: getNode() of a node returned reads a count one higher
\* after the call than before it.
C33_SearchRaisesCount ==
    \A q \in EmbedVecs, layer \in 0..(maxLayers - 1) :
        LET found == searchInLayer(Store, q, layer, 3, NullId)
        IN  \A i \in 1..Len(found.results) :
                getNode(found.st, found.results[i].id).access_count
                    = getNode(Store, found.results[i].id).access_count + 1

\* C34: after _executeDelete() of a node other than the root that has no
\* children the node is gone from the store: getNode() gives nothing for
\* its id and no search of a layer returns it.
C34_DeleteRemoves ==
    \A id \in KnownIds :
        deletable(id, getNode(Store, id)) =>
            LET st == executeDelete(Store, <<id>>)
            IN  /\ getNode(st, id) = NoRow
                /\ \A q \in EmbedVecs, layer \in 0..(maxLayers - 1) :
                      \A r \in EntriesOf(searchInLayer(st, q, layer, 3, NullId).results) :
                          r.id # id

\* The store a call made alone leaves is the one addNode() gives.
AloneAsAddNode ==
    (Len(calls) = 1 /\ calls[1].pc = "done") =>
        LET call == calls[1]
            made == addNode([t |-> <<rootRow>>, c |-> <<rootRow>>], call.layer,
                            call.parentId, call.vector, call.context, call.id)
        IN  made.ok /\ made.st = Store

\* C40: once two addNode() calls that name the same parent have both
\* returned, the parent's children list holds both new ids and has no more
\* than maxChildren entries.
BothReturned(i, j) ==
    /\ i # j
    /\ calls[i].pc = "done" /\ calls[j].pc = "done"
    /\ calls[i].parentId = calls[j].parentId
C40_BothChildrenKept ==
    \A i \in 1..Len(calls), j \in 1..Len(calls) : BothReturned(i, j) =>
        LET parent == getNode(Store, calls[i].parentId)
        IN  /\ InSeq(calls[i].id, parent.children_ids)
            /\ InSeq(calls[j].id, parent.children_ids)
            /\ Len(parent.children_ids) <= maxChildren

====
